---- MODULE Spec2Model ----
(***************************************************************************)
(* Model of the control-plane of claude-code-sdk-go.                       *)
(*                                                                         *)
(* Part 1: the control protocol correlator (control_protocol.go).          *)
(* Goroutines calling SendRequest are the Callers; the transport's receive *)
(* loop is one more goroutine, the Receiver, which calls                   *)
(* HandleControlResponse for one inbound response after the other.  A      *)
(* PendingControlResponse is a heap object; the object allocated by        *)
(* caller c is named c (each caller issues one SendRequest), and 0 is the  *)
(* nil pointer.                                                            *)
(*                                                                         *)
(* Part 2: the correlator's handler table (RegisterHandler,                *)
(* HasPermissionSupport, HandleControlRequest) and its capability query    *)
(* (HasControlSupport).                                                    *)
(*                                                                         *)
(* Part 3: the permission gate (permissionManager).  Every CheckPermission *)
(* call k has its own timeoutCtx, resultChan, errChan and goroutine; the   *)
(* calls share pm.callback.                                                *)
(*                                                                         *)
(* Part 4: the permission results as objects in memory, with their builder *)
(* methods (WithInput, WithPermissions, WithInterrupt); a pointer is an    *)
(* index into resultObjs.                                                  *)
(*                                                                         *)
(* Part 5: the hook registry of package shared (HookRegistry): the         *)
(* registrations, one InvokeCallback call and one Execute call, which      *)
(* holds the registry's read lock while it ranges over the callbacks.      *)
(*                                                                         *)
(* Part 6: the hook system of package claudecode (hookSystem): AddHook and  *)
(* RemoveHook, called by the application or from inside a hook, and the    *)
(* ExecuteHooks calls, each in a goroutine of its own.                     *)
(*                                                                         *)
(* Part 7: the pattern matcher MatchesPattern, a function of its two       *)
(* arguments, applied to patterns and tool names of the documentation.     *)
(*                                                                         *)
(* The parts share no state, so each has its own specification, in which   *)
(* the other parts stay as they are constructed.                           *)
(***************************************************************************)
EXTENDS Integers, Sequences, FiniteSets, TLC

\* ---- bounds ----
NumCallers == 2
\* concurrent CheckPermission calls
NumCheckers == 2
\* permission result objects the application allocates
MaxResults == 2
\* callbacks registered over the life of one hook registry
MaxHookSeq == 3
\* concurrent ExecuteHooks calls
NumExecutors == 2
\* calls of MatchesPattern that are followed
MaxMatchCalls == 2

Callers == 1..NumCallers
Receiver == NumCallers + 1
Receivers == {Receiver}
Procs == Callers \cup Receivers
NoProc == 0
NilPending == 0

\* ---- request ids: fmt.Sprintf("sdk-ctrl-%d", n) ----
NoID == <<>>
SprintfID(n) == <<"sdk-ctrl-", n>>
Suffix(id) == id[2]

\* ids a response coming from the agent may carry: every id the correlator
\* can have issued, and one it never issues
ResponseIDs == {SprintfID(n) : n \in 1..(NumCallers + 1)}

\* ---- errors, named by the message the code formats ----
NoError == "nil"
ErrUnsupported == "control protocol not supported by transport"
ErrNoCtrlTransport == "transport does not support control requests"
ErrSendFailed == "failed to send control request"
ErrRequestFailed == "control request failed"
ErrTimeout == "control request timeout after 30 seconds"
ErrContext == "context cancelled while waiting for control response"
ErrUnknownID == "received response for unknown request ID"
ErrAlreadyProcessed == "response already processed for request ID"

\* ---- responses ----
NilResponse == [ID |-> NoID, Subtype |-> "nil", Error |-> NoError]
ControlResponse(id, e) ==
    [ID |-> id, Subtype |-> IF e = NoError THEN "success" ELSE "error", Error |-> e]
ResponseErrors == {NoError, "agent error"}

\* ---- channels (capacity 1) ----
MakeChan == [buf |-> <<>>, closed |-> FALSE]
ChanReady(ch) == Len(ch.buf) > 0 \/ ch.closed
ChanRecv(ch) == IF Len(ch.buf) > 0 THEN Head(ch.buf) ELSE NilResponse
CloseChan(ch) == [ch EXCEPT !.closed = TRUE]

NewPending == [Done |-> FALSE, ResponseChan |-> MakeChan, TimeoutChan |-> MakeChan]

VARIABLES
    transportImplements,  \* the transport implements ControlRequestTransport
    supportsControl,      \* what SupportsControlRequests() reports now
    sentRequests,         \* the requests handed to SendControlRequest, each
                          \* named by the caller that owns it
    requestID,            \* cp.requestID
    requestIDMu,          \* holder of cp.requestIDMu
    pendingResponses,     \* cp.pendingResponses: id -> pending object
    pendingResponsesMu,   \* write holder of cp.pendingResponsesMu
    heap,                 \* the PendingControlResponse objects
    pc,                   \* position of every goroutine
    reqID,                \* SendRequest's req.ID
    ctxDone,              \* timeoutCtx.Err(): "no" while it is not done, then the
                          \* caller's cancellation or the 30 s deadline
    result,               \* what SendRequest returned
    respID,               \* response.ID of HandleControlResponse's argument
    hpending,             \* HandleControlResponse's local pending pointer
    hresult,              \* what the last HandleControlResponse returned
    crashed,              \* an unrecovered panic ended the program
    \* history
    issued,               \* the ids in the order they were assigned
    supportAtCheck,       \* whether the transport supported control when the call checked
    delivered,            \* the response a HandleControlResponse accepted for the object
    \* the handler table and the capability queries
    handlers,             \* cp.handlers: subtype -> handler
    hcrq,                 \* the receive path's HandleControlRequest call
    hps,                  \* what the last HasPermissionSupport returned
    hcs,                  \* what the last HasControlSupport returned
    registered,           \* history: the subtypes RegisterHandler was called for
    \* the permission gate
    callback,             \* pm.callback
    gpc,                  \* position of every CheckPermission call
    gctx,                 \* timeoutCtx.Err() of the call: "no" while it is not done
    worker,               \* the goroutine the call starts to run the callback
    resultChan,           \* the call's resultChan
    errChan,              \* the call's errChan
    greturn,              \* what CheckPermission returned
    gateCrashed,          \* a panic left a goroutine unrecovered
    \* the permission result objects
    resultObjs,           \* the objects in memory; a pointer is an index
    handedOver,           \* history: a pointer handed to another caller, and
                          \* what it pointed to then
    builderRet,           \* the last builder call: its receiver and what it returned
    \* the hook registry
    callbacks,            \* r.callbacks: id -> callback
    callbackIDSeq,        \* r.callbackIDSeq
    registerRet,          \* the ids the last RegisterHooks or Register returned
    inv,                  \* the InvokeCallback call
    ex,                   \* the Execute call
    hookIssued,           \* history: every id ever issued, with the event kind
                          \* and the pattern it was registered under
    \* the hook system
    matchers,             \* hs.matchers: pattern -> hooks
    hsMu,                 \* hs.mu: the goroutines that hold its read lock
    eh,                   \* the ExecuteHooks calls
    \* the pattern matcher
    mp                    \* the MatchesPattern calls made so far

correlatorVars == <<transportImplements, supportsControl, sentRequests,
          requestID, requestIDMu, pendingResponses, pendingResponsesMu, heap,
          pc, reqID, ctxDone, result, respID, hpending, hresult,
          crashed, issued, supportAtCheck, delivered>>
handlerVars == <<handlers, hcrq, hps, registered>>
queryVars == <<hcs>>
gateVars == <<callback, gpc, gctx, worker, resultChan, errChan, greturn, gateCrashed>>
builderVars == <<resultObjs, handedOver, builderRet>>
\* the state the correlator's request/response path does not touch
registryVars == <<callbacks, callbackIDSeq, registerRet, inv, ex, hookIssued>>
hookSystemVars == <<matchers, hsMu, eh>>
matchVars == <<mp>>
\* the hook registries and the pattern matcher
hookVars == <<registryVars, hookSystemVars, matchVars>>
besideCorrelator == <<handlerVars, queryVars, gateVars, builderVars, hookVars>>
\* the state the hook registry does not touch
besideRegistry == <<correlatorVars, handlerVars, queryVars, gateVars, builderVars,
                    hookSystemVars, matchVars>>
\* the state the hook system does not touch
besideHookSystem == <<correlatorVars, handlerVars, queryVars, gateVars, builderVars,
                      registryVars, matchVars>>
\* the state a call of the pattern matcher does not touch
besideMatch == <<correlatorVars, handlerVars, queryVars, gateVars, builderVars,
                 registryVars, hookSystemVars>>

vars == <<correlatorVars, handlerVars, queryVars, gateVars, builderVars, hookVars>>

transportVars == <<transportImplements, supportsControl, sentRequests>>
idVars == <<requestID, requestIDMu, issued>>
pendingVars == <<pendingResponses, pendingResponsesMu, heap, delivered>>
callerVars == <<reqID, ctxDone, result, supportAtCheck>>
receiverVars == <<respID, hpending, hresult>>

Result(r, e) == [resp |-> r, err |-> e]
NoResult == Result(NilResponse, "pending")

\* ---- the handler table ----
\* the ControlRequestType constants
Subtypes == {"initialize", "can_use_tool", "set_permission_mode", "set_model",
             "interrupt", "rewind_files"}
\* the handler functions the application registers, and the nil func
Handlers == {"handlerA", "handlerB"}
NoHandler == "nil"
\* the ids the agent gives its own requests
AgentRequestIDs == {"agent-1", "agent-2"}
ErrNoHandler == "no handler registered for control request type"

\* what a handler returns: (data, err)
NoData == "nil"
HandlerReturn(d, e) == [data |-> d, err |-> e]
HandlerReturns == {HandlerReturn("data", NoError),
                   HandlerReturn(NoData, "handler failed"),
                   HandlerReturn("data", "handler failed")}

\* the responses HandleControlRequest builds
NilRequestResponse == [ID |-> "", Subtype |-> "nil", Data |-> NoData, Error |-> NoError]
\* the Error response built as a Success response
ErrorResponse_AsSuccess(id, msg) ==
    [ID |-> id, Subtype |-> "success", Data |-> NoData, Error |-> NoError]
\* lines 242-248
ErrorResponse(id, msg) ==
    [ID |-> id, Subtype |-> "error", Data |-> NoData, Error |-> msg]
\* lines 251-255
SuccessResponse(id, data) ==
    [ID |-> id, Subtype |-> "success", Data |-> data, Error |-> NoError]

NoRequest == [ID |-> "", Subtype |-> "nil"]
\* no HandleControlRequest is running
HcrqIdle == [pc |-> "idle", req |-> NoRequest, handler |-> NoHandler,
             invoked |-> <<>>, resp |-> NilRequestResponse, err |-> "pending"]
Unasked == [asked |-> FALSE, value |-> FALSE, expected |-> FALSE]
Answer(v, e) == [asked |-> TRUE, value |-> v, expected |-> e]

\* NewControlProtocol, lines 112-118, before any handler call
HandlerIdle ==
    /\ handlers = <<>>
    /\ hcrq = HcrqIdle
    /\ hps = Unasked
    /\ registered = {}

QueryIdle == hcs = Unasked

\* ---- the permission gate ----
Checkers == 1..NumCheckers
\* the CanUseToolFunc values the application installs, and the nil func
Callbacks == {"callbackA", "callbackB"}
NoCallback == "nil"
\* the arguments of CheckPermission
ToolNames == {"bash", "edit"}
ToolInputs == {"echo hello", "rm -rf /"}

\* permission results
NoInput == "nil"
NilPermissionResult ==
    [behavior |-> "nil", updatedInput |-> NoInput, message |-> "", interrupt |-> FALSE]
\* NewPermissionResultAllow().WithInput(input)
PermissionResultAllow(input) ==
    [behavior |-> "allow", updatedInput |-> input, message |-> "", interrupt |-> FALSE]
\* NewPermissionResultDeny(message), with or without WithInterrupt()
PermissionResultDeny(message, interrupt) ==
    [behavior |-> "deny", updatedInput |-> NoInput, message |-> message,
     interrupt |-> interrupt]

\* errors of the gate: the chain of messages, outermost first
GateNoError == <<>>
\* fmt.Errorf("callback panic: %v", r)
PanicError(r) == <<"callback panic", r>>
\* the error passed on without the wrapper
WrapError_Bare(err) == err
\* fmt.Errorf("permission callback failed: %w", err)
WrapError(err) == <<"permission callback failed">> \o err

\* what a callback does when it finishes: it returns (result, nil), returns
\* (nil, err), or panics with a value
ReturnsResult(r) == [kind |-> "result", result |-> r, err |-> GateNoError, panic |-> "nil"]
ReturnsError(e) == [kind |-> "error", result |-> NilPermissionResult, err |-> e, panic |-> "nil"]
Panics(v) == [kind |-> "panic", result |-> NilPermissionResult, err |-> GateNoError, panic |-> v]
NoOutcome == [kind |-> "none", result |-> NilPermissionResult, err |-> GateNoError, panic |-> "nil"]
CallbackResults == {PermissionResultAllow("modified input"),
                    PermissionResultDeny("Dangerous command not allowed", TRUE)}
CallbackOutcomes ==
    {ReturnsResult(r) : r \in CallbackResults}
    \cup {ReturnsError(<<"callback error">>)}
    \cup {Panics("test panic")}

\* the callback's goroutine: not started, started (cb is the callback line 363
\* found installed), running callback cb (the one line 386 read), or finished
\* after the callback did out
NoWorker == [st |-> "none", cb |-> NoCallback, out |-> NoOutcome]
GateReturn(r, e) == [result |-> r, err |-> e]
NoGateReturn == GateReturn(NilPermissionResult, <<"pending">>)

\* a permission result as an object in memory (lines 235-238 and 283-286)
NoUpdates == "nil"
PermissionUpdates == {"userSettings"}
AllowObject(input, updates) ==
    [behavior |-> "allow", updatedInput |-> input, updatedPermissions |-> updates,
     message |-> "", interrupt |-> FALSE]
DenyObject(message, interrupt) ==
    [behavior |-> "deny", updatedInput |-> NoInput, updatedPermissions |-> NoUpdates,
     message |-> message, interrupt |-> interrupt]
NilObject ==
    [behavior |-> "nil", updatedInput |-> NoInput, updatedPermissions |-> NoUpdates,
     message |-> "", interrupt |-> FALSE]
NilPointer == 0
NotHandedOver == [ptr |-> NilPointer, value |-> NilObject]
NoBuilderCall == [recv |-> NilPointer, ret |-> NilPointer]

\* no result object made yet
BuilderIdle ==
    /\ resultObjs = <<>>
    /\ handedOver = NotHandedOver
    /\ builderRet = NoBuilderCall

\* ---- the hook registry of package shared (src/unnamed/part_001) ----
\* callbacks one matcher may hold
MaxHooks == 2
HookEvents == {"pre_tool_use", "post_tool_use"}
HookCallbacks == {"hookA", "hookB"}
NoHook == "nil"

\* a string is a sequence of pieces
HookToolNames == {<<"Bash">>, <<"Edit">>}
Contains(str, sub) ==
    \E i \in 1..(Len(str) - Len(sub) + 1) : SubSeq(str, i, i + Len(sub) - 1) = sub

\* a matcher pattern: absent, or the text of a regular expression, which has
\* alternatives and may be anchored at both ends when it compiles
NoPattern ==
    [nil |-> TRUE, text |-> <<>>, valid |-> TRUE, anchored |-> FALSE, alts |-> {}]
Literal(name) ==
    [nil |-> FALSE, text |-> name, valid |-> TRUE, anchored |-> FALSE, alts |-> {name}]
RegisteredPatterns == {NoPattern, Literal(<<"Bash">>)}

\* line 173: re.MatchString(toolName): the expression matches the name when it
\* matches some part of it; between ^ and $ it has to match the whole name
MatchString(re, toolName) ==
    IF re.anchored THEN toolName \in re.alts
    ELSE \E alt \in re.alts : Contains(toolName, alt)

\* a pattern that does not compile matches nothing
MatchesPattern_NoFallback(pattern, toolName) ==
    IF pattern.nil THEN TRUE
    ELSE IF ~pattern.valid THEN FALSE
    ELSE MatchString(pattern, toolName)
\* lines 161-174
MatchesPattern(pattern, toolName) ==
    IF pattern.nil THEN TRUE
    ELSE IF ~pattern.valid THEN pattern.text = toolName
    ELSE MatchString(pattern, toolName)

\* line 167: regexp.Compile(*pattern), for expressions made of names, bars,
\* one group and the two anchors.  The expression compiles when its
\* parentheses pair up; its alternatives are the names between the bars.
MetaPieces == {"^", "$", "(", ")", "|"}
Occurrences(text, piece) == Cardinality({i \in DOMAIN text : text[i] = piece})
RECURSIVE Alternatives(_, _)
Alternatives(text, name) ==
    IF text = <<>> THEN {name}
    ELSE IF Head(text) = "|" THEN {name} \cup Alternatives(Tail(text), <<>>)
    ELSE IF Head(text) \in MetaPieces THEN Alternatives(Tail(text), name)
    ELSE Alternatives(Tail(text), Append(name, Head(text)))
Compile(text) ==
    [nil |-> FALSE, text |-> text,
     valid |-> Occurrences(text, "(") = Occurrences(text, ")"),
     anchored |-> Len(text) > 1 /\ Head(text) = "^" /\ text[Len(text)] = "$",
     alts |-> Alternatives(text, <<>>)]

\* the patterns of the documentation and of TestHookPatternMatching, and one
\* that is no regular expression
PatternTexts ==
    {<<"Bash">>,
     <<"Bash", "|", "Edit">>,
     <<"^", "(", "Bash", "|", "Edit", ")", "$">>,
     <<"^", "(", "Bash", "|", "Edit", "|", "Write", ")", "$">>,
     <<"(", "Bash">>}
MatchPatterns == {NoPattern} \cup {Compile(text) : text \in PatternTexts}
\* the names of tools, and a name that is the text of the last pattern
MatchToolNames ==
    {<<"Bash">>, <<"Edit">>, <<"Write">>, <<"AnyTool">>, <<"Bash", "Output">>,
     <<"Notebook", "Edit">>, <<"(", "Bash">>}
MatchCall(pattern, toolName, matched) ==
    [pattern |-> pattern, toolName |-> toolName, result |-> matched]

\* lines 50-60: a matcher, or the nil pointer
NilMatcher == [nil |-> TRUE, Matcher |-> NoPattern, Hooks |-> <<>>]
HookMatcher(pattern, hooks) == [nil |-> FALSE, Matcher |-> pattern, Hooks |-> hooks]
HookLists == UNION {[1..n -> HookCallbacks] : n \in 0..MaxHooks}
Matchers ==
    {NilMatcher} \cup {HookMatcher(p, h) : p \in RegisteredPatterns, h \in HookLists}

\* callback ids: fmt.Sprintf("hook_%s_%d", eventType, seq) and fmt.Sprintf("hook_%d", seq)
SprintfHooksID(eventType, seq) == <<"hook_", eventType, "_", seq>>
SprintfHookID(seq) == <<"hook_", seq>>
NoHookID == <<>>
HookIDs ==
    {SprintfHooksID(e, n) : e \in HookEvents, n \in 1..MaxHookSeq}
    \cup {SprintfHookID(n) : n \in 1..(MaxHookSeq + 1)}

\* what a callback returns: a map (nil, empty or with entries) and an error
NilMap == [nil |-> TRUE, entries |-> {}]
MakeMap(entries) == [nil |-> FALSE, entries |-> entries]
NoHookError == <<>>
HookReturn(out, err) == [out |-> out, err |-> err]
HookReturns ==
    {HookReturn(out, NoHookError) :
        out \in {NilMap, MakeMap({}), MakeMap({<<"continue", FALSE>>})}}
    \cup {HookReturn(NilMap, <<"hook error">>)}
NoHookReturn == HookReturn(NilMap, <<"pending">>)

InvIdle == [pc |-> "idle", id |-> NoHookID, cb |-> NoHook, calls |-> <<>>,
            cbret |-> NoHookReturn, ret |-> NoHookReturn]
ExIdle == [pc |-> "idle", event |-> "nil", tool |-> <<>>, ctx |-> "no", left |-> {},
           cur |-> NoHookID, invoked |-> <<>>, cbret |-> NoHookReturn,
           ret |-> NoHookReturn]

\* NewHookRegistry, lines 111-115
RegistryIdle ==
    /\ callbacks = <<>>
    /\ callbackIDSeq = 0
    /\ registerRet = <<>>
    /\ inv = InvIdle
    /\ ex = ExIdle
    /\ hookIssued = <<>>

\* ---- the hook system of package claudecode (src/unnamed/part_002) ----
\* hooks the application adds to one hook system
MaxAdded == 2
Executors == 1..NumExecutors
\* the goroutine of the application, which adds and removes hooks
Application == 0
\* lines 14-19: the event types the calls are made for
HookEventTypes == {"PreToolUse", "Stop"}
\* the ToolName of a tool-use input; other inputs have none
InputToolNames == {"test_tool"}
NoToolName == ""
ExecuteInputs ==
    {[event |-> "PreToolUse", tool |-> t] : t \in InputToolNames}
    \cup {[event |-> "Stop", tool |-> NoToolName]}
\* the patterns hooks are added under
HookPatterns == {"*", "PreToolUse", "test_tool"}
\* the HookCallback function of the application
HookFuncs == {"callback"}
\* the hooks of one AddHook call
HookArgLists == UNION {[1..n -> HookFuncs] : n \in 1..MaxAdded}

\* lines 22-28 and 85-90: the output of a hook
HookBehaviorContinue == "continue"
HookBehaviorStop == "stop"
HookOutput(behavior, message) == [behavior |-> behavior, message |-> message]
ZeroHookOutput == HookOutput("", "")
NilHookOutput == HookOutput("nil", "")
NoHookErr == "nil"

\* what a hook does when it finishes: it returns (output, err) or panics
HookResult(out, err) == [kind |-> "return", out |-> out, err |-> err, panic |-> "nil"]
HookPanic(v) == [kind |-> "panic", out |-> ZeroHookOutput, err |-> NoHookErr, panic |-> v]
HookResults ==
    {HookResult(HookOutput(HookBehaviorContinue, ""), NoHookErr),
     HookResult(HookOutput(HookBehaviorStop, "Stopped by hook"), NoHookErr),
     HookResult(ZeroHookOutput, "hook error"),
     HookResult(HookOutput(HookBehaviorStop, "Stopped by hook"), "hook error"),
     HookPanic("test panic")}

\* what ExecuteHooks returns: (*HookOutput, error)
ExecuteHooksReturn(out, err) == [out |-> out, err |-> err]
NoExecuteHooksReturn == ExecuteHooksReturn(NilHookOutput, "pending")
\* lines 173 and 203
ContinueReturn ==
    ExecuteHooksReturn(HookOutput(HookBehaviorContinue, ""), NoHookErr)
\* fmt.Errorf("hook execution failed: %w", err)
ErrHookExecution(err) == <<"hook execution failed", err>>

\* no ExecuteHooks call made yet in the goroutine
EhIdle == [pc |-> "idle", event |-> "nil", tool |-> NoToolName, matching |-> <<>>,
           invoked |-> <<>>, outs |-> <<>>, ret |-> NoExecuteHooksReturn]

\* NewHookSystem, lines 135-139
HookSystemIdle ==
    /\ matchers = <<>>
    /\ hsMu = {}
    /\ eh = [x \in Executors |-> EhIdle]

\* no MatchesPattern call made yet
MatchIdle == mp = <<>>

\* NewPermissionManager, lines 352-354, before any call
GateIdle ==
    /\ callback = NoCallback
    /\ gpc = [k \in Checkers |-> "idle"]
    /\ gctx = [k \in Checkers |-> "no"]
    /\ worker = [k \in Checkers |-> NoWorker]
    /\ resultChan = [k \in Checkers |-> <<>>]
    /\ errChan = [k \in Checkers |-> <<>>]
    /\ greturn = [k \in Checkers |-> NoGateReturn]
    /\ gateCrashed = FALSE

Init ==
    /\ transportImplements \in BOOLEAN
    /\ supportsControl \in BOOLEAN
    /\ sentRequests = <<>>
    /\ requestID = 0
    /\ requestIDMu = NoProc
    /\ pendingResponses = <<>>
    /\ pendingResponsesMu = NoProc
    /\ heap = [c \in Callers |-> NewPending]
    /\ pc = [p \in Procs |-> "idle"]
    /\ reqID = [c \in Callers |-> NoID]
    /\ ctxDone = [c \in Callers |-> "no"]
    /\ result = [c \in Callers |-> NoResult]
    /\ respID = [r \in Receivers |-> NoID]
    /\ hpending = [r \in Receivers |-> NilPending]
    /\ hresult = [r \in Receivers |-> "pending"]
    /\ crashed = "no"
    /\ issued = <<>>
    /\ supportAtCheck = [c \in Callers |-> "unasked"]
    /\ delivered = [c \in Callers |-> NilResponse]
    /\ HandlerIdle
    /\ QueryIdle
    /\ GateIdle
    /\ BuilderIdle
    /\ RegistryIdle
    /\ HookSystemIdle
    /\ MatchIdle

Running == crashed = "no"

\* ---- the pending table, a Go map ----
MapHas(m, id) == id \in DOMAIN m
\* the key ignored: the lookup yields whatever entry the table holds
MapGet_First(m, id) ==
    IF DOMAIN m = {} THEN NilPending ELSE m[CHOOSE k \in DOMAIN m : TRUE]
MapGet(m, id) == IF id \in DOMAIN m THEN m[id] ELSE NilPending
MapPut(m, id, v) == [k \in DOMAIN m \cup {id} |-> IF k = id THEN v ELSE m[k]]
\* delete() forgotten: the entry stays in the table
DeleteEntry_Keep(m, id) == m
DeleteEntry(m, id) == [k \in DOMAIN m \ {id} |-> m[k]]

\* ---- transport ----
\* the capability query forgotten: only the interface is looked at
HasControlSupport_TypeOnly == transportImplements
\* the answer kept from the first query
HasControlSupport_Cached ==
    IF hcs.asked THEN hcs.value ELSE transportImplements /\ supportsControl
\* lines 194-202
HasControlSupport == IF ~transportImplements THEN FALSE ELSE supportsControl

\* the transport's capability changes (the field the tests set)
SetSupportsControl ==
    /\ Running
    /\ supportsControl' = ~supportsControl
    /\ UNCHANGED <<transportImplements, sentRequests, idVars, pendingVars,
                   pc, callerVars, receiverVars, crashed>>
    /\ UNCHANGED besideCorrelator

\* ---- locks ----
\* the counter is used without its lock
RequestIDMuFree_Unlocked == TRUE
RequestIDMuFree == requestIDMu = NoProc
PendingMuFree == pendingResponsesMu = NoProc

\* an unrecovered panic in goroutine p ends the program
Panic(p, why) ==
    /\ crashed' = why
    /\ pc' = [pc EXCEPT ![p] = "panic"]

Return(c, r, e) ==
    /\ result' = [result EXCEPT ![c] = Result(r, e)]
    /\ pc' = [pc EXCEPT ![c] = "done"]

NextRequestID(n) == n + 1

\* ---- SendRequest ----
\* lines 122-128: the capability check; with control support the call takes
\* requestIDMu and increments the counter (the call reads the transport's
\* capability only here, so the check and the lock are one step)
SendRequest_Begin(c) ==
    /\ Running /\ pc[c] = "idle"
    /\ supportAtCheck' = [supportAtCheck EXCEPT ![c] =
            IF transportImplements /\ supportsControl THEN "yes" ELSE "no"]
    /\ IF HasControlSupport
         THEN /\ RequestIDMuFree
              /\ requestIDMu' = c
              /\ requestID' = NextRequestID(requestID)
              /\ pc' = [pc EXCEPT ![c] = "genFmt"]
              /\ UNCHANGED result
         ELSE /\ Return(c, NilResponse, ErrUnsupported)
              /\ UNCHANGED <<requestID, requestIDMu>>
    /\ UNCHANGED <<transportVars, issued, pendingVars, reqID, ctxDone,
                   receiverVars, crashed>>
    /\ UNCHANGED besideCorrelator

\* lines 129-132
SendRequest_FormatID(c) ==
    /\ Running /\ pc[c] = "genFmt"
    /\ reqID' = [reqID EXCEPT ![c] = SprintfID(requestID)]
    /\ issued' = Append(issued, SprintfID(requestID))
    /\ requestIDMu' = NoProc
    /\ pc' = [pc EXCEPT ![c] = "register"]
    /\ UNCHANGED <<transportVars, requestID, pendingVars, ctxDone, result,
                   supportAtCheck, receiverVars, crashed>>
    /\ UNCHANGED besideCorrelator

\* lines 135-142
SendRequest_Register(c) ==
    /\ Running /\ pc[c] = "register"
    /\ PendingMuFree
    /\ heap' = [heap EXCEPT ![c] = NewPending]
    /\ pendingResponses' = MapPut(pendingResponses, reqID[c], c)
    /\ pc' = [pc EXCEPT ![c] = "send"]
    /\ UNCHANGED <<transportVars, idVars, pendingResponsesMu, delivered,
                   callerVars, receiverVars, crashed>>
    /\ UNCHANGED besideCorrelator

\* lines 145-154: the transport accepts the request or fails
SendRequest_Send(c) ==
    /\ Running /\ pc[c] = "send"
    /\ IF ~transportImplements
         THEN /\ result' = [result EXCEPT ![c] = Result(NilResponse, ErrNoCtrlTransport)]
              /\ pc' = [pc EXCEPT ![c] = "cleanup"]
              /\ UNCHANGED sentRequests
         ELSE \E ok \in BOOLEAN :
              IF ok
              THEN /\ sentRequests' = Append(sentRequests, c)
                   /\ pc' = [pc EXCEPT ![c] = "wait"]
                   /\ UNCHANGED result
              ELSE /\ result' = [result EXCEPT ![c] = Result(NilResponse, ErrSendFailed)]
                   /\ pc' = [pc EXCEPT ![c] = "cleanup"]
                   /\ UNCHANGED sentRequests
    /\ UNCHANGED <<transportImplements, supportsControl, idVars,
                   pendingVars, reqID, ctxDone, supportAtCheck,
                   receiverVars, crashed>>
    /\ UNCHANGED besideCorrelator

\* a caller is done when SendRequest returns; the receive loop goes on to the
\* next response when HandleControlResponse returns
AfterReturn(p) == IF p \in Callers THEN "done" ELSE "idle"

\* the id a goroutine passes to cleanupPendingResponse
CleanupID(p) == IF p \in Callers THEN reqID[p] ELSE respID[p]

\* lines 259-270, and the return of its caller (line 148, 153 or 226)
cleanupPendingResponse(p) ==
    /\ Running /\ pc[p] = "cleanup"
    /\ PendingMuFree
    /\ LET id == CleanupID(p)
           o == MapGet(pendingResponses, id)
       IN IF MapHas(pendingResponses, id)
          THEN IF ~heap[o].Done /\ (heap[o].ResponseChan.closed \/ heap[o].TimeoutChan.closed)
               THEN /\ Panic(p, "close of closed channel")
                    /\ UNCHANGED <<heap, pendingResponses, hresult>>
               ELSE /\ heap' = IF heap[o].Done THEN heap
                               ELSE [heap EXCEPT ![o].ResponseChan = CloseChan(@),
                                                 ![o].TimeoutChan = CloseChan(@)]
                    /\ pendingResponses' = DeleteEntry(pendingResponses, id)
                    /\ pc' = [pc EXCEPT ![p] = AfterReturn(p)]
                    /\ hresult' = IF p \in Receivers
                                  THEN [hresult EXCEPT ![p] = NoError] ELSE hresult
                    /\ UNCHANGED crashed
          ELSE /\ pc' = [pc EXCEPT ![p] = AfterReturn(p)]
               /\ hresult' = IF p \in Receivers
                             THEN [hresult EXCEPT ![p] = NoError] ELSE hresult
               /\ UNCHANGED <<heap, pendingResponses, crashed>>
    /\ pendingResponsesMu' = NoProc
    /\ UNCHANGED <<transportVars, idVars, delivered, callerVars, respID, hpending>>
    /\ UNCHANGED besideCorrelator

\* line 157, 170: timeoutCtx is done when the caller's context is, or after 30 s
CtxDone(c) == ctxDone[c] # "no"

\* lines 161-165
SendRequest_RecvResponse(c) ==
    /\ Running /\ pc[c] = "wait"
    /\ ChanReady(heap[c].ResponseChan)
    /\ LET response == ChanRecv(heap[c].ResponseChan)
       IN IF response = NilResponse
          THEN /\ Panic(c, "nil pointer dereference")
               /\ UNCHANGED result
          ELSE /\ IF response.Error # NoError
                     THEN Return(c, NilResponse, ErrRequestFailed)
                     ELSE Return(c, response, NoError)
               /\ UNCHANGED crashed
    /\ UNCHANGED <<transportVars, idVars, pendingVars, reqID, ctxDone,
                   supportAtCheck, receiverVars>>
    /\ UNCHANGED besideCorrelator

\* lines 167-168
SendRequest_RecvTimeout(c) ==
    /\ Running /\ pc[c] = "wait"
    /\ ChanReady(heap[c].TimeoutChan)
    /\ Return(c, NilResponse, ErrTimeout)
    /\ UNCHANGED <<transportVars, idVars, pendingVars, reqID, ctxDone,
                   supportAtCheck, receiverVars, crashed>>
    /\ UNCHANGED besideCorrelator

\* lines 170-171
SendRequest_CtxDone(c) ==
    /\ Running /\ pc[c] = "wait"
    /\ CtxDone(c)
    /\ Return(c, NilResponse, ErrContext)
    /\ UNCHANGED <<transportVars, idVars, pendingVars, reqID, ctxDone,
                   supportAtCheck, receiverVars, crashed>>
    /\ UNCHANGED besideCorrelator

\* the caller cancels the context it passed to SendRequest (SendRequest looks
\* at the context only in its wait, so a cancellation before the wait acts as
\* one at its start; ctxDone keeps the first cause that ended timeoutCtx)
CancelContext(c) ==
    /\ Running /\ pc[c] = "wait"
    /\ ctxDone[c] = "no"
    /\ ctxDone' = [ctxDone EXCEPT ![c] = "context canceled"]
    /\ UNCHANGED <<transportVars, idVars, pendingVars, pc, reqID,
                   result, supportAtCheck, receiverVars, crashed>>
    /\ UNCHANGED besideCorrelator

\* 30 seconds pass after line 157
TimerFires(c) ==
    /\ Running /\ pc[c] = "wait"
    /\ ctxDone[c] = "no"
    /\ ctxDone' = [ctxDone EXCEPT ![c] = "context deadline exceeded"]
    /\ UNCHANGED <<transportVars, idVars, pendingVars, pc, reqID,
                   result, supportAtCheck, receiverVars, crashed>>
    /\ UNCHANGED besideCorrelator

\* ---- HandleControlResponse ----
\* the exists flag ignored: every id is taken to be pending
LookupPending_AlwaysExists(m, id) == [pending |-> MapGet(m, id), exists |-> TRUE]
\* lines 206-208: pending, exists := cp.pendingResponses[response.ID]
LookupPending(m, id) == [pending |-> MapGet(m, id), exists |-> MapHas(m, id)]

\* lines 205-212: the receive path calls HandleControlResponse(response)
HandleControlResponse_Lookup(r) ==
    /\ Running /\ pc[r] = "idle"
    /\ PendingMuFree
    /\ \E id \in ResponseIDs :
          /\ respID' = [respID EXCEPT ![r] = id]
          /\ IF LookupPending(pendingResponses, id).exists
               THEN /\ hpending' = [hpending EXCEPT ![r] = LookupPending(pendingResponses, id).pending]
                    /\ hresult' = [hresult EXCEPT ![r] = "pending"]
                    /\ pc' = [pc EXCEPT ![r] = "lock"]
               ELSE /\ hpending' = [hpending EXCEPT ![r] = NilPending]
                    /\ hresult' = [hresult EXCEPT ![r] = ErrUnknownID]
                    /\ pc' = [pc EXCEPT ![r] = AfterReturn(r)]
    /\ UNCHANGED <<transportVars, idVars, pendingVars, callerVars, crashed>>
    /\ UNCHANGED besideCorrelator

\* lines 214-225: up to the call of cleanupPendingResponse, the lock still held.
\* HandleControlResponse reads nothing of the response but its ID, so the rest
\* of the response is drawn here, where the response is accepted.
HandleControlResponse_Locked(r) ==
    /\ Running /\ pc[r] = "lock"
    /\ PendingMuFree
    /\ LET o == hpending[r]
       IN IF o = NilPending
          THEN /\ Panic(r, "nil pointer dereference")
               /\ UNCHANGED <<heap, delivered, hresult, pendingResponsesMu>>
          ELSE IF heap[o].Done
          THEN /\ hresult' = [hresult EXCEPT ![r] = ErrAlreadyProcessed]
               /\ pc' = [pc EXCEPT ![r] = AfterReturn(r)]
               /\ UNCHANGED <<heap, delivered, crashed, pendingResponsesMu>>
          ELSE IF heap[o].ResponseChan.closed \/ heap[o].TimeoutChan.closed
          THEN /\ Panic(r, "close of closed channel")
               /\ heap' = [heap EXCEPT ![o].Done = TRUE]
               /\ UNCHANGED <<delivered, hresult, pendingResponsesMu>>
          ELSE /\ heap' = [heap EXCEPT ![o].Done = TRUE,
                                       ![o].ResponseChan = CloseChan(@),
                                       ![o].TimeoutChan = CloseChan(@)]
               /\ \E e \in ResponseErrors :
                    delivered' = [delivered EXCEPT ![o] = ControlResponse(respID[r], e)]
               /\ pendingResponsesMu' = r
               /\ pc' = [pc EXCEPT ![r] = "cleanup"]
               /\ UNCHANGED <<hresult, crashed>>
    /\ UNCHANGED <<transportVars, idVars, pendingResponses, callerVars, respID,
                   hpending>>
    /\ UNCHANGED besideCorrelator

\* ---- the capability query ----
\* lines 194-202, called by the application
HasControlSupport_Call ==
    /\ Running
    /\ hcs' = Answer(HasControlSupport, transportImplements /\ supportsControl)
    /\ UNCHANGED <<correlatorVars, builderVars, hookVars, handlerVars, gateVars>>

\* ---- RegisterHandler, HasPermissionSupport, HandleControlRequest ----
HandlerGet(m, st) == IF st \in DOMAIN m THEN m[st] ELSE NoHandler

\* the read lock given back by a deferred RUnlock: HandleControlRequest holds
\* it while the handler runs
HandlersMuFree_Deferred == hcrq.pc # "invoke"
\* lines 231-233 and 177-178: handlersMu is held for the lookup and for the
\* assignment, each one step, and by nobody between the steps
HandlersMuFree == TRUE

\* lines 176-180 (the section under handlersMu is one step)
RegisterHandler(subtype, handler) ==
    /\ HandlersMuFree
    /\ handlers' = MapPut(handlers, subtype, handler)
    /\ registered' = registered \cup {subtype}
    /\ UNCHANGED <<correlatorVars, builderVars, hookVars, queryVars, gateVars, hcrq, hps>>

\* one of the two handlers is enough
HasPermissionSupport_Either ==
    MapHas(handlers, "initialize") \/ MapHas(handlers, "can_use_tool")
\* lines 183-191
HasPermissionSupport ==
    LET hasInit == MapHas(handlers, "initialize")
        hasCanUse == MapHas(handlers, "can_use_tool")
    IN hasInit /\ hasCanUse

HasPermissionSupport_Call ==
    /\ hps' = Answer(HasPermissionSupport,
                     {"initialize", "can_use_tool"} \subseteq registered)
    /\ UNCHANGED <<correlatorVars, builderVars, hookVars, queryVars, gateVars, handlers, hcrq, registered>>

\* lines 230-237: the receive path calls HandleControlRequest(ctx, req); the
\* lookup under handlersMu; without a handler the call returns
HandleControlRequest_Lookup ==
    /\ hcrq.pc \in {"idle", "done"}
    /\ \E id \in AgentRequestIDs, st \in Subtypes :
          LET handler == HandlerGet(handlers, st)
              exists == MapHas(handlers, st)
          IN hcrq' = [pc |-> IF exists THEN "invoke" ELSE "done",
                      req |-> [ID |-> id, Subtype |-> st],
                      handler |-> handler,
                      invoked |-> <<>>,
                      resp |-> NilRequestResponse,
                      err |-> IF exists THEN "pending" ELSE ErrNoHandler]
    /\ UNCHANGED <<correlatorVars, builderVars, hookVars, queryVars, gateVars, handlers, hps, registered>>

\* lines 240-255: the handler runs, outside every lock, and the response is built
HandleControlRequest_Invoke ==
    /\ hcrq.pc = "invoke"
    /\ \E out \in HandlerReturns :
          hcrq' = [hcrq EXCEPT
                     !.pc = "done",
                     !.invoked = Append(@, [handler |-> hcrq.handler, out |-> out]),
                     !.resp = IF out.err # NoError
                              THEN ErrorResponse(hcrq.req.ID, out.err)
                              ELSE SuccessResponse(hcrq.req.ID, out.data),
                     !.err = NoError]
    /\ UNCHANGED <<correlatorVars, builderVars, hookVars, queryVars, gateVars, handlers, hps, registered>>

\* ---- the permission gate: SetPermissionCallback, CheckPermission ----
GateRunning == ~gateCrashed

\* the channel has no buffer and its receiver is not waiting yet: the value is dropped
TrySend_Unbuffered(buf, v) == buf
\* a send in a select with a default branch, on a channel of capacity 1
TrySend(buf, v) == IF Len(buf) < 1 THEN Append(buf, v) ELSE buf

\* lines 357-359
SetPermissionCallback(cb) ==
    /\ GateRunning
    /\ callback' = cb
    /\ UNCHANGED <<correlatorVars, builderVars, hookVars, handlerVars, queryVars,
                   gpc, gctx, worker, resultChan, errChan, greturn, gateCrashed>>

\* without a callback every tool is denied
DefaultResult_Deny == PermissionResultDeny("No callback", FALSE)
\* line 365: NewPermissionResultAllow()
DefaultResult == PermissionResultAllow(NoInput)

\* lines 362-398: without a callback the call returns Allow; with one it makes
\* timeoutCtx and the two channels, starts the goroutine and waits in the select
CheckPermission_Begin(k, toolName, input) ==
    /\ GateRunning /\ gpc[k] = "idle"
    /\ IF callback = NoCallback
         THEN /\ greturn' = [greturn EXCEPT
                     ![k] = GateReturn(DefaultResult, GateNoError)]
              /\ gpc' = [gpc EXCEPT ![k] = "done"]
              /\ UNCHANGED worker
         ELSE /\ worker' = [worker EXCEPT ![k].st = "start", ![k].cb = callback]
              /\ gpc' = [gpc EXCEPT ![k] = "select"]
              /\ UNCHANGED greturn
    /\ UNCHANGED <<correlatorVars, builderVars, hookVars, handlerVars, queryVars,
                   callback, gctx, resultChan, errChan, gateCrashed>>

\* the deferred recover() is left out
RecoverInstalled_Missing == FALSE
\* lines 376-384
RecoverInstalled == TRUE

\* lines 376-384: the goroutine panics with value r; the deferred function
\* recovers and hands the panic over as an error
WorkerPanics(k, r) ==
    IF RecoverInstalled
    THEN /\ errChan' = [errChan EXCEPT ![k] = TrySend(@, PanicError(r))]
         /\ UNCHANGED gateCrashed
    ELSE /\ gateCrashed' = TRUE
         /\ UNCHANGED errChan

\* line 386: the goroutine reads pm.callback and calls it; calling a nil func panics
Worker_Invoke(k) ==
    /\ GateRunning /\ worker[k].st = "start"
    /\ IF callback = NoCallback
         THEN /\ worker' = [worker EXCEPT ![k] =
                     [st |-> "done", cb |-> NoCallback,
                      out |-> Panics("nil pointer dereference")]]
              /\ WorkerPanics(k, "nil pointer dereference")
         ELSE /\ worker' = [worker EXCEPT ![k].st = "running", ![k].cb = callback]
              /\ UNCHANGED <<errChan, gateCrashed>>
    /\ UNCHANGED <<correlatorVars, builderVars, hookVars, handlerVars, queryVars,
                   callback, gpc, gctx, resultChan, greturn>>

\* the hand-off is a plain send on a channel without buffer: it waits until
\* CheckPermission receives in its select
HandOffReady_Blocking(k) == gpc[k] = "select"
\* lines 372-373, 379-382 and 388-397: each send is a select with a default
\* branch on a channel of capacity 1, so the goroutine never waits to send
HandOffReady(k) == TRUE

\* lines 386-397: the callback finishes, and the goroutine hands over what it did
Callback_Does(k, out) ==
    /\ GateRunning /\ worker[k].st = "running"
    /\ HandOffReady(k)
    /\ worker' = [worker EXCEPT ![k] = [st |-> "done", cb |-> NoCallback, out |-> out]]
    /\ IF out.kind = "panic"
         THEN /\ WorkerPanics(k, out.panic)
              /\ UNCHANGED resultChan
         ELSE IF out.kind = "error"
         THEN /\ errChan' = [errChan EXCEPT ![k] = TrySend(@, out.err)]
              /\ UNCHANGED <<resultChan, gateCrashed>>
         ELSE /\ resultChan' = [resultChan EXCEPT ![k] = TrySend(@, out.result)]
              /\ UNCHANGED <<errChan, gateCrashed>>
    /\ UNCHANGED <<correlatorVars, builderVars, hookVars, handlerVars, queryVars,
                   callback, gpc, gctx, greturn>>

Callback_Finishes(k) == \E out \in CallbackOutcomes : Callback_Does(k, out)

\* a callback that allows every tool, with the input as it is or modified
\* (NewPermissionResultAllow(), and WithInput on it)
AllowResults == {PermissionResultAllow(NoInput), PermissionResultAllow("modified input")}
Callback_ReturnsAllow(k) == \E r \in AllowResults : Callback_Does(k, ReturnsResult(r))

\* line 369: timeoutCtx ends after 5 seconds, or at the caller's own deadline
SubContextExpires(k) ==
    /\ GateRunning /\ gpc[k] = "select"
    /\ gctx[k] = "no"
    /\ gctx' = [gctx EXCEPT ![k] = "context deadline exceeded"]
    /\ UNCHANGED <<correlatorVars, builderVars, hookVars, handlerVars, queryVars,
                   callback, gpc, worker, resultChan, errChan, greturn, gateCrashed>>

\* the caller cancels the context it passed to CheckPermission (the call looks
\* at the context only in its select, so a cancellation before the call acts
\* as one at the start of the select)
CancelCallerContext(k) ==
    /\ GateRunning /\ gpc[k] = "select"
    /\ gctx[k] = "no"
    /\ gctx' = [gctx EXCEPT ![k] = "context canceled"]
    /\ UNCHANGED <<correlatorVars, builderVars, hookVars, handlerVars, queryVars,
                   callback, gpc, worker, resultChan, errChan, greturn, gateCrashed>>

\* the 5 second ceiling forgotten: only the caller's cancellation ends the wait
SubContextDone_CallerOnly(k) == gctx[k] = "context canceled"
\* the select does not wait: its last branch is a default branch
SubContextDone_Default(k) == TRUE
\* line 405
SubContextDone(k) == gctx[k] # "no"

\* the callback is handed a context that never ends
CallbackContext_Background(k) == "no"
\* line 386: the callback is handed timeoutCtx, the child made at line 369
CallbackContext(k) == gctx[k]

\* a callback that honours its context (lines 70-76 of the timeout test): it
\* waits for the context it was handed to end, and then finishes
Callback_FinishesAfterDone(k) ==
    /\ CallbackContext(k) # "no"
    /\ Callback_Finishes(k)

\* line 370: the deferred cancel() ends timeoutCtx when CheckPermission returns
DeferredCancel(c) == IF c = "no" THEN "canceled on return" ELSE c

GateReturns(k, r, e) ==
    /\ greturn' = [greturn EXCEPT ![k] = GateReturn(r, e)]
    /\ gpc' = [gpc EXCEPT ![k] = "done"]
    /\ gctx' = [gctx EXCEPT ![k] = DeferredCancel(@)]

\* the callback's result replaced by a fresh Allow
PassResult_FreshAllow(r) == PermissionResultAllow(NoInput)
\* line 402
PassResult(r) == r

\* lines 401-402
CheckPermission_RecvResult(k) ==
    /\ GateRunning /\ gpc[k] = "select"
    /\ Len(resultChan[k]) > 0
    /\ GateReturns(k, PassResult(Head(resultChan[k])), GateNoError)
    /\ resultChan' = [resultChan EXCEPT ![k] = Tail(@)]
    /\ UNCHANGED <<correlatorVars, builderVars, hookVars, handlerVars, queryVars,
                   callback, worker, errChan, gateCrashed>>

\* lines 403-404
CheckPermission_RecvErr(k) ==
    /\ GateRunning /\ gpc[k] = "select"
    /\ Len(errChan[k]) > 0
    /\ GateReturns(k, PermissionResultDeny("Callback failed", FALSE),
                   WrapError(Head(errChan[k])))
    /\ errChan' = [errChan EXCEPT ![k] = Tail(@)]
    /\ UNCHANGED <<correlatorVars, builderVars, hookVars, handlerVars, queryVars,
                   callback, worker, resultChan, gateCrashed>>

\* lines 405-406
CheckPermission_CtxDone(k) ==
    /\ GateRunning /\ gpc[k] = "select"
    /\ SubContextDone(k)
    /\ GateReturns(k, PermissionResultDeny("Callback timeout", FALSE), GateNoError)
    /\ UNCHANGED <<correlatorVars, builderVars, hookVars, handlerVars, queryVars,
                   callback, worker, resultChan, errChan, gateCrashed>>

\* ---- the system ----
CallerStep(c) ==
    \/ SendRequest_Begin(c)
    \/ SendRequest_FormatID(c)
    \/ SendRequest_Register(c)
    \/ SendRequest_Send(c)
    \/ SendRequest_RecvResponse(c)
    \/ SendRequest_RecvTimeout(c)
    \/ SendRequest_CtxDone(c)

ReceiverStep(r) ==
    \/ HandleControlResponse_Lookup(r)
    \/ HandleControlResponse_Locked(r)

Next ==
    \/ \E c \in Callers : CallerStep(c)
    \/ \E r \in Receivers : ReceiverStep(r)
    \/ \E p \in Procs : cleanupPendingResponse(p)
    \/ \E c \in Callers : CancelContext(c)
    \/ \E c \in Callers : TimerFires(c)
    \/ SetSupportsControl

Spec == Init /\ [][Next]_vars

\* what a goroutine does once it is inside SendRequest or HandleControlResponse;
\* the Go scheduler runs every runnable goroutine
ProgramStep(p) ==
    \/ /\ p \in Callers
       /\ \/ SendRequest_FormatID(p)
          \/ SendRequest_Register(p)
          \/ SendRequest_Send(p)
          \/ SendRequest_RecvResponse(p)
          \/ SendRequest_RecvTimeout(p)
          \/ SendRequest_CtxDone(p)
    \/ p \in Receivers /\ HandleControlResponse_Locked(p)
    \/ cleanupPendingResponse(p)

FairSpec == Spec /\ \A p \in Procs : WF_vars(ProgramStep(p))

\* the handler table on its own: the application registers handlers and asks
\* for permission support while the receive path dispatches the agent's requests
HandlerInit ==
    /\ Init
    /\ transportImplements /\ supportsControl

HandlerNext ==
    \/ \E st \in Subtypes, h \in Handlers : RegisterHandler(st, h)
    \/ HasPermissionSupport_Call
    \/ HandleControlRequest_Lookup
    \/ HandleControlRequest_Invoke

HandlerSpec == HandlerInit /\ [][HandlerNext]_vars

\* the calls the correlator makes out of itself: SendRequest calls the
\* transport, which may hand responses to HandleControlResponse before its send
\* returns, and HandleControlRequest calls a handler, during which the
\* application may register handlers
InitializeRequest ==
    /\ HandleControlRequest_Lookup
    /\ hcrq'.req = [ID |-> "agent-1", Subtype |-> "initialize"]

OutcallNext ==
    \/ \E c \in Callers : SendRequest_Begin(c)
    \/ \E c \in Callers : SendRequest_FormatID(c)
    \/ \E c \in Callers : SendRequest_Register(c)
    \/ \E c \in Callers : SendRequest_Send(c)
    \/ \E r \in Receivers : ReceiverStep(r)
    \/ \E p \in Procs : cleanupPendingResponse(p)
    \/ \E h \in Handlers : RegisterHandler("initialize", h)
    \/ InitializeRequest
    \/ HandleControlRequest_Invoke

OutcallSpec == HandlerInit /\ [][OutcallNext]_vars

\* the capability check: the transport's capability changes while the
\* application asks HasControlSupport and starts SendRequest calls
SupportNext ==
    \/ SetSupportsControl
    \/ HasControlSupport_Call
    \/ \E c \in Callers : SendRequest_Begin(c)
    \/ \E c \in Callers : SendRequest_FormatID(c)

SupportSpec == Init /\ [][SupportNext]_vars

\* the permission gate on its own: the application installs callbacks while
\* CheckPermission calls run
GateSelect(k) ==
    \/ CheckPermission_RecvResult(k)
    \/ CheckPermission_RecvErr(k)
    \/ CheckPermission_CtxDone(k)

GateNext ==
    \/ \E cb \in Callbacks \cup {NoCallback} : SetPermissionCallback(cb)
    \/ \E k \in Checkers, toolName \in ToolNames, input \in ToolInputs :
          CheckPermission_Begin(k, toolName, input)
    \/ \E k \in Checkers : Worker_Invoke(k)
    \/ \E k \in Checkers : Callback_Finishes(k)
    \/ \E k \in Checkers : SubContextExpires(k)
    \/ \E k \in Checkers : CancelCallerContext(k)
    \/ \E k \in Checkers : GateSelect(k)

GateSpec == HandlerInit /\ [][GateNext]_vars

\* what goes on by itself once a call waits: the scheduler runs its runnable
\* goroutines and its 5 second timer fires; nothing makes a callback finish
GateProgress(k) ==
    \/ GateSelect(k)
    \/ Worker_Invoke(k)
    \/ SubContextExpires(k)

\* one CheckPermission call followed from its start to its return, while the
\* application installs callbacks: calls share nothing but pm.callback, which
\* no call writes, so what one call does never depends on another call
OneCall == CHOOSE k \in Checkers : TRUE

OneCallNext ==
    \/ \E cb \in Callbacks \cup {NoCallback} : SetPermissionCallback(cb)
    \/ \E toolName \in ToolNames, input \in ToolInputs :
          CheckPermission_Begin(OneCall, toolName, input)
    \/ Worker_Invoke(OneCall)
    \/ Callback_Finishes(OneCall)
    \/ SubContextExpires(OneCall)
    \/ CancelCallerContext(OneCall)
    \/ GateSelect(OneCall)

OneCallFairSpec ==
    HandlerInit /\ [][OneCallNext]_vars /\ WF_vars(GateProgress(OneCall))

\* one CheckPermission call whose callback waits for its context to end
CancelNext ==
    \/ \E cb \in Callbacks \cup {NoCallback} : SetPermissionCallback(cb)
    \/ \E toolName \in ToolNames, input \in ToolInputs :
          CheckPermission_Begin(OneCall, toolName, input)
    \/ Worker_Invoke(OneCall)
    \/ Callback_FinishesAfterDone(OneCall)
    \/ SubContextExpires(OneCall)
    \/ CancelCallerContext(OneCall)
    \/ GateSelect(OneCall)

CancelFairSpec ==
    HandlerInit /\ [][CancelNext]_vars /\ WF_vars(GateProgress(OneCall))

\* concurrent CheckPermission calls against one callback, installed once, that
\* returns Allow well within the 5 seconds, with contexts nobody cancels
InstallCallback(cb) ==
    /\ callback = NoCallback
    /\ SetPermissionCallback(cb)

AllowNext ==
    \/ \E cb \in Callbacks : InstallCallback(cb)
    \/ \E k \in Checkers, toolName \in ToolNames, input \in ToolInputs :
          CheckPermission_Begin(k, toolName, input)
    \/ \E k \in Checkers : Worker_Invoke(k)
    \/ \E k \in Checkers : Callback_ReturnsAllow(k)
    \* of the select's branches only the first can be taken here: nothing is
    \* sent on errChan and no context ends
    \/ \E k \in Checkers : CheckPermission_RecvResult(k)

\* the scheduler runs the call's goroutines, and the callback returns
AllowProgress(k) ==
    \/ Worker_Invoke(k)
    \/ Callback_ReturnsAllow(k)
    \/ CheckPermission_RecvResult(k)

AllowFairSpec ==
    HandlerInit /\ [][AllowNext]_vars /\ \A k \in Checkers : WF_vars(AllowProgress(k))

\* ---- the permission result objects and their builder methods ----
\* lines 278-280
NewPermissionResultAllow ==
    /\ Len(resultObjs) < MaxResults
    /\ resultObjs' = Append(resultObjs, AllowObject(NoInput, NoUpdates))
    /\ UNCHANGED <<correlatorVars, handlerVars, queryVars, gateVars, hookVars,
                   handedOver, builderRet>>

\* lines 320-324
NewPermissionResultDeny(message) ==
    /\ Len(resultObjs) < MaxResults
    /\ resultObjs' = Append(resultObjs, DenyObject(message, FALSE))
    /\ UNCHANGED <<correlatorVars, handlerVars, queryVars, gateVars, hookVars,
                   handedOver, builderRet>>

\* lines 266-269
WithInput(p, input) ==
    /\ p \in DOMAIN resultObjs /\ resultObjs[p].behavior = "allow"
    /\ resultObjs' = [resultObjs EXCEPT ![p].updatedInput = input]
    /\ builderRet' = [recv |-> p, ret |-> p]
    /\ UNCHANGED <<correlatorVars, handlerVars, queryVars, gateVars, hookVars,
                   handedOver>>

\* lines 272-275
WithPermissions(p, updates) ==
    /\ p \in DOMAIN resultObjs /\ resultObjs[p].behavior = "allow"
    /\ resultObjs' = [resultObjs EXCEPT ![p].updatedPermissions = updates]
    /\ builderRet' = [recv |-> p, ret |-> p]
    /\ UNCHANGED <<correlatorVars, handlerVars, queryVars, gateVars, hookVars,
                   handedOver>>

\* lines 314-317
WithInterrupt(p) ==
    /\ p \in DOMAIN resultObjs /\ resultObjs[p].behavior = "deny"
    /\ resultObjs' = [resultObjs EXCEPT ![p].interrupt = TRUE]
    /\ builderRet' = [recv |-> p, ret |-> p]
    /\ UNCHANGED <<correlatorVars, handlerVars, queryVars, gateVars, hookVars,
                   handedOver>>

\* lines 401-402: the pointer a callback returned is returned to the caller of
\* CheckPermission, who now holds the same object as the callback's owner
HandOver(p) ==
    /\ p \in DOMAIN resultObjs
    /\ handedOver' = [ptr |-> p, value |-> resultObjs[p]]
    /\ UNCHANGED <<correlatorVars, handlerVars, queryVars, gateVars, hookVars,
                   resultObjs, builderRet>>

BuilderNext ==
    \/ NewPermissionResultAllow
    \/ \E message \in {"Dangerous command not allowed"} : NewPermissionResultDeny(message)
    \/ \E p \in 1..MaxResults, input \in ToolInputs : WithInput(p, input)
    \/ \E p \in 1..MaxResults, updates \in PermissionUpdates : WithPermissions(p, updates)
    \/ \E p \in 1..MaxResults : WithInterrupt(p)
    \/ \E p \in 1..MaxResults : HandOver(p)

BuilderSpec == HandlerInit /\ [][BuilderNext]_vars

\* ---- the hook registry: RegisterHooks, Register, Unregister, Clear, ----
\* ---- InvokeCallback, Execute                                        ----
\* lines 141-145
GetCallback(id) == IF id \in DOMAIN callbacks THEN callbacks[id] ELSE NoHook

\* lines 206-207: Execute holds the read lock of r.mu until it returns, and a
\* writer waits for it
ExecuteHoldsRLock == ex.pc \in {"loop", "calling"}

\* the counter is advanced once for the whole matcher
NextSeq_Once(seq, i) == seq + 1
\* line 129: the i-th callback of the matcher gets the i-th next number
NextSeq(seq, i) == seq + i

\* lines 118-138
RegisterHooks(eventType, matcher) ==
    /\ IF matcher.nil \/ Len(matcher.Hooks) = 0
         THEN /\ registerRet' = <<>>
              /\ UNCHANGED <<callbacks, callbackIDSeq, hookIssued>>
         ELSE /\ ~ExecuteHoldsRLock
              /\ callbackIDSeq + Len(matcher.Hooks) <= MaxHookSeq
              /\ LET n == Len(matcher.Hooks)
                     ids == [i \in 1..n |->
                               SprintfHooksID(eventType, NextSeq(callbackIDSeq, i))]
                     new == {ids[i] : i \in 1..n}
                     \* a later callback under the same id overwrites an earlier one
                     last(id) == CHOOSE i \in 1..n :
                                    /\ ids[i] = id
                                    /\ \A j \in 1..n : ids[j] = id => j <= i
                 IN  /\ callbacks' = [id \in DOMAIN callbacks \cup new |->
                            IF id \in new THEN matcher.Hooks[last(id)]
                            ELSE callbacks[id]]
                     /\ hookIssued' = [id \in DOMAIN hookIssued \cup new |->
                            IF id \in new
                            THEN [event |-> eventType, pattern |-> matcher.Matcher]
                            ELSE hookIssued[id]]
                     /\ callbackIDSeq' = callbackIDSeq + n
                     /\ registerRet' = ids
    /\ UNCHANGED <<besideRegistry, inv, ex>>

\* lines 177-191: the interface's Register keeps the first callback only
Register(eventName, matcher) ==
    /\ IF matcher.nil \/ Len(matcher.Hooks) = 0
         THEN /\ registerRet' = <<>>
              /\ UNCHANGED <<callbacks, callbackIDSeq, hookIssued>>
         ELSE /\ ~ExecuteHoldsRLock
              /\ callbackIDSeq + 1 <= MaxHookSeq
              /\ LET id == SprintfHookID(callbackIDSeq + 1)
                 IN  /\ callbacks' = [i \in DOMAIN callbacks \cup {id} |->
                            IF i = id THEN matcher.Hooks[1] ELSE callbacks[i]]
                     /\ hookIssued' = [i \in DOMAIN hookIssued \cup {id} |->
                            IF i = id
                            THEN [event |-> eventName, pattern |-> matcher.Matcher]
                            ELSE hookIssued[i]]
                     /\ callbackIDSeq' = callbackIDSeq + 1
                     /\ registerRet' = <<id>>
    /\ UNCHANGED <<besideRegistry, inv, ex>>

\* lines 194-200
Unregister(callbackID) ==
    /\ ~ExecuteHoldsRLock
    /\ callbacks' = [id \in DOMAIN callbacks \ {callbackID} |-> callbacks[id]]
    /\ UNCHANGED <<besideRegistry, callbackIDSeq, registerRet, inv, ex, hookIssued>>

\* lines 232-238
Clear ==
    /\ ~ExecuteHoldsRLock
    /\ callbacks' = <<>>
    /\ UNCHANGED <<besideRegistry, callbackIDSeq, registerRet, inv, ex, hookIssued>>

\* fmt.Errorf("hook callback not found: %s", id)
ErrHookNotFound(id) == <<"hook callback not found: ", id>>

\* lines 148-154: the lookup under the read lock
InvokeCallback_Lookup(id) ==
    /\ inv.pc \in {"idle", "done"}
    /\ inv' = IF GetCallback(id) = NoHook
              THEN [InvIdle EXCEPT !.pc = "done", !.id = id,
                                   !.ret = HookReturn(NilMap, ErrHookNotFound(id))]
              ELSE [InvIdle EXCEPT !.pc = "calling", !.id = id, !.cb = GetCallback(id)]
    /\ UNCHANGED <<besideRegistry, callbacks, callbackIDSeq, registerRet, ex, hookIssued>>

\* the callback's error comes back wrapped
InvokeReturn_Wrapped(r) ==
    IF r.err = NoHookError THEN r ELSE HookReturn(r.out, <<"hook failed">> \o r.err)
\* line 157: return callback(ctx, input, toolUseID, hookCtx)
InvokeReturn(r) == r

\* line 157: the callback, called outside the lock, returns
InvokeCallback_Returns ==
    /\ inv.pc = "calling"
    /\ \E r \in HookReturns :
          inv' = [inv EXCEPT !.pc = "done", !.calls = Append(@, inv.cb),
                             !.cbret = r, !.ret = InvokeReturn(r)]
    /\ UNCHANGED <<besideRegistry, callbacks, callbackIDSeq, registerRet, ex, hookIssued>>

\* line 220
DefaultContinue == MakeMap({<<"continue", TRUE>>})
\* fmt.Errorf("hook %s failed: %w", id, err)
ErrHookFailed(id, err) == <<"hook failed: ", id>> \o err

\* lines 203-209: Execute takes the read lock and starts to range over the map
Execute_Begin(eventName, toolName) ==
    /\ ex.pc \in {"idle", "done"}
    /\ ex' = [ExIdle EXCEPT !.pc = "loop", !.event = eventName, !.tool = toolName,
                            !.left = DOMAIN callbacks]
    /\ UNCHANGED <<besideRegistry, callbacks, callbackIDSeq, registerRet, inv, hookIssued>>

\* lines 209-211 and 220: the range yields the entries in an order of its own;
\* after the last one Execute returns the default
Execute_Next ==
    /\ ex.pc = "loop"
    /\ IF ex.left = {}
         THEN ex' = [ex EXCEPT !.pc = "done",
                               !.ret = HookReturn(DefaultContinue, NoHookError)]
         ELSE \E id \in ex.left :
                 ex' = [ex EXCEPT !.pc = "calling", !.cur = id, !.left = @ \ {id},
                                  !.invoked = Append(@, id), !.cbret = NoHookReturn]
    /\ UNCHANGED <<besideRegistry, callbacks, callbackIDSeq, registerRet, inv, hookIssued>>

\* the dispatch ends only on a map with entries
IsOutput_NonEmpty(out) == ~out.nil /\ out.entries # {}
\* line 215: result != nil
IsOutput(out) == ~out.nil

\* lines 211-217: the callback returns
Execute_CallbackReturns ==
    /\ ex.pc = "calling"
    /\ \E r \in HookReturns :
          ex' = IF r.err # NoHookError
                THEN [ex EXCEPT !.pc = "done", !.cbret = r,
                                !.ret = HookReturn(NilMap, ErrHookFailed(ex.cur, r.err))]
                ELSE IF IsOutput(r.out)
                THEN [ex EXCEPT !.pc = "done", !.cbret = r,
                                !.ret = HookReturn(r.out, NoHookError)]
                ELSE [ex EXCEPT !.pc = "loop", !.cbret = r]
    /\ UNCHANGED <<besideRegistry, callbacks, callbackIDSeq, registerRet, inv, hookIssued>>

\* line 203: the deadline of the ctx the caller passed elapses while a callback
\* runs; Execute hands ctx to the callback and does not look at it itself
Execute_ContextDone ==
    /\ ex.pc = "calling" /\ ex.ctx = "no"
    /\ ex' = [ex EXCEPT !.ctx = "context deadline exceeded"]
    /\ UNCHANGED <<besideRegistry, callbacks, callbackIDSeq, registerRet, inv, hookIssued>>

\* the matchers of the registration tests: pattern "Bash", any list of callbacks
BashMatchers ==
    {NilMatcher} \cup {HookMatcher(Literal(<<"Bash">>), h) : h \in HookLists}
\* matchers with one callback, under every pattern
SingleMatchers == {HookMatcher(p, <<"hookA">>) : p \in RegisteredPatterns}

\* registration on its own
RegisterNext ==
    \/ \E e \in HookEvents, m \in BashMatchers : RegisterHooks(e, m)
    \/ \E e \in HookEvents, m \in BashMatchers : Register(e, m)
    \/ \E id \in HookIDs : Unregister(id)
    \/ Clear

RegisterSpec == HandlerInit /\ [][RegisterNext]_vars

\* InvokeCallback while callbacks are registered and removed
InvokeNext ==
    \/ \E m \in BashMatchers : RegisterHooks("pre_tool_use", m)
    \/ \E id \in HookIDs : Unregister(id)
    \/ Clear
    \/ \E id \in HookIDs : InvokeCallback_Lookup(id)
    \/ InvokeCallback_Returns

InvokeSpec == HandlerInit /\ [][InvokeNext]_vars

\* Execute while callbacks are registered for events and patterns
ExecuteNext ==
    \/ \E e \in HookEvents, m \in SingleMatchers : Register(e, m)
    \/ \E e \in HookEvents, t \in HookToolNames : Execute_Begin(e, t)
    \/ Execute_Next
    \/ Execute_CallbackReturns
    \/ Execute_ContextDone

ExecuteSpec == HandlerInit /\ [][ExecuteNext]_vars

\* Execute's own steps are taken and time passes; nothing makes a callback return
ExecuteFairSpec ==
    ExecuteSpec /\ WF_vars(Execute_Next) /\ WF_vars(Execute_ContextDone)

\* ---- the hook system: AddHook, RemoveHook, ExecuteHooks ----
\* the hooks the table holds, over all patterns
TotalHooks ==
    LET RECURSIVE Sum(_)
        Sum(S) == IF S = {} THEN 0
                  ELSE LET p == CHOOSE q \in S : TRUE
                       IN Len(matchers[p]) + Sum(S \ {p})
    IN Sum(DOMAIN matchers)

\* hs.mu.Lock() returns when no goroutine holds the read lock (the holders of
\* the write lock hold it for one step)
WriteLockFree == hsMu = {}
\* a goroutine waits in hs.mu.Lock(): RLock() lets no new reader in then
WriterWaiting == \E x \in Executors : eh[x].pc = "writing"

\* goroutine g is where a call of AddHook or RemoveHook gets the lock: the
\* application, or a hook that made the call from inside ExecuteHooks
CanWrite(g) ==
    /\ WriteLockFree
    /\ IF g = Application THEN TRUE ELSE eh[g].pc = "writing"
\* the call made from inside a hook returns into the hook
WriterReturns(g) ==
    eh' = IF g = Application THEN eh ELSE [eh EXCEPT ![g].pc = "calling"]

\* lines 142-148
AddHook(g, pattern, hooks) ==
    /\ CanWrite(g)
    /\ TotalHooks + Len(hooks) <= MaxAdded
    /\ matchers' = [p \in DOMAIN matchers \cup {pattern} |->
           IF p = pattern
           THEN (IF p \in DOMAIN matchers THEN matchers[p] ELSE <<>>) \o hooks
           ELSE matchers[p]]
    /\ WriterReturns(g)
    /\ UNCHANGED <<besideHookSystem, hsMu>>

\* lines 151-157
RemoveHook(g, pattern) ==
    /\ CanWrite(g)
    /\ matchers' = [p \in DOMAIN matchers \ {pattern} |-> matchers[p]]
    /\ WriterReturns(g)
    /\ UNCHANGED <<besideHookSystem, hsMu>>

\* lines 225-235: the pattern is compared with the event type
patternMatches(eventType, pattern) ==
    pattern = "*" \/ pattern = eventType

\* the orders in which a range over the map may yield the patterns of S
RangeOrders(S) ==
    {f \in [1..Cardinality(S) -> S] : \A i, j \in DOMAIN f : f[i] = f[j] => i = j}
\* lines 165-170: the hooks of the patterns, appended in the order of the range
RECURSIVE AppendHooks(_)
AppendHooks(order) ==
    IF order = <<>> THEN <<>>
    ELSE matchers[Head(order)] \o AppendHooks(Tail(order))

\* the return of ExecuteHooks; the deferred RUnlock gives the read lock back
ExecuteHooksReturns(x, out, err) ==
    /\ eh' = [eh EXCEPT ![x].pc = "done", ![x].ret = ExecuteHooksReturn(out, err)]
    /\ hsMu' = hsMu \ {x}

\* lines 160-174: the read lock is taken and the matching hooks are collected;
\* without a matching hook the call returns Continue
ExecuteHooks_Begin(x, eventType, toolName) ==
    /\ eh[x].pc \in {"idle", "done"}
    /\ ~WriterWaiting
    /\ LET matching == {p \in DOMAIN matchers : patternMatches(eventType, p)}
       IN \E order \in RangeOrders(matching) :
            LET matchingHooks == AppendHooks(order)
            IN IF Len(matchingHooks) = 0
               THEN /\ eh' = [eh EXCEPT ![x] =
                          [EhIdle EXCEPT !.pc = "done", !.event = eventType,
                                         !.tool = toolName, !.ret = ContinueReturn]]
                    /\ UNCHANGED hsMu
               ELSE /\ eh' = [eh EXCEPT ![x] =
                          [EhIdle EXCEPT !.pc = "loop", !.event = eventType,
                                         !.tool = toolName, !.matching = matchingHooks]]
                    /\ hsMu' = hsMu \cup {x}
    /\ UNCHANGED <<besideHookSystem, matchers>>

\* lines 180-181 and 203: the next hook is called, in the goroutine of
\* ExecuteHooks and under the read lock; after the last one the call returns
\* Continue
ExecuteHooks_Next(x) ==
    /\ eh[x].pc = "loop"
    /\ IF eh[x].matching = <<>>
         THEN ExecuteHooksReturns(x, ContinueReturn.out, NoHookErr)
         ELSE /\ eh' = [eh EXCEPT ![x].pc = "calling",
                                  ![x].invoked = Append(@, Head(eh[x].matching)),
                                  ![x].matching = Tail(@)]
              /\ UNCHANGED hsMu
    /\ UNCHANGED <<besideHookSystem, matchers>>

\* every output lets the loop go on
IsStop_Never(output) == FALSE
\* line 187
IsStop(output) == output.behavior = HookBehaviorStop

\* lines 181-189: the hook finishes.  ExecuteHooks has no recover: a panic of
\* the hook unwinds through it into its caller, and on the way the deferred
\* cancel and RUnlock run
Hook_Finishes(x) ==
    /\ eh[x].pc = "calling"
    /\ \E r \in HookResults :
          IF r.kind = "panic"
          THEN /\ eh' = [eh EXCEPT ![x].pc = "panicked", ![x].outs = Append(@, r)]
               /\ hsMu' = hsMu \ {x}
          ELSE IF r.err # NoHookErr
          THEN /\ eh' = [eh EXCEPT ![x].pc = "done", ![x].outs = Append(@, r),
                            ![x].ret = ExecuteHooksReturn(NilHookOutput,
                                                          ErrHookExecution(r.err))]
               /\ hsMu' = hsMu \ {x}
          ELSE IF IsStop(r.out)
          THEN /\ eh' = [eh EXCEPT ![x].pc = "done", ![x].outs = Append(@, r),
                            ![x].ret = ExecuteHooksReturn(r.out, NoHookErr)]
               /\ hsMu' = hsMu \ {x}
          ELSE /\ eh' = [eh EXCEPT ![x].pc = "loop", ![x].outs = Append(@, r)]
               /\ UNCHANGED hsMu
    /\ UNCHANGED <<besideHookSystem, matchers>>

\* the running hook calls AddHook or RemoveHook of the hook system it runs
\* under, and waits in hs.mu.Lock() (lines 143 and 152)
Hook_CallsWriter(x) ==
    /\ eh[x].pc = "calling"
    /\ eh' = [eh EXCEPT ![x].pc = "writing"]
    /\ UNCHANGED <<besideHookSystem, matchers, hsMu>>

HookSystemNext ==
    \/ \E g \in {Application} \cup Executors, p \in HookPatterns, hooks \in HookArgLists :
          AddHook(g, p, hooks)
    \/ \E g \in {Application} \cup Executors, p \in HookPatterns : RemoveHook(g, p)
    \/ \E x \in Executors, i \in ExecuteInputs : ExecuteHooks_Begin(x, i.event, i.tool)
    \/ \E x \in Executors : ExecuteHooks_Next(x)
    \/ \E x \in Executors : Hook_Finishes(x)
    \/ \E x \in Executors : Hook_CallsWriter(x)

HookSystemSpec == HandlerInit /\ [][HookSystemNext]_vars

\* one ExecuteHooks call followed from its start to its return, while the
\* application adds and removes hooks
OneExecutor == CHOOSE x \in Executors : TRUE

OneExecuteHooksNext ==
    \/ \E g \in {Application, OneExecutor}, p \in HookPatterns, hooks \in HookArgLists :
          AddHook(g, p, hooks)
    \/ \E g \in {Application, OneExecutor}, p \in HookPatterns : RemoveHook(g, p)
    \/ \E i \in ExecuteInputs : ExecuteHooks_Begin(OneExecutor, i.event, i.tool)
    \/ ExecuteHooks_Next(OneExecutor)
    \/ Hook_Finishes(OneExecutor)
    \/ Hook_CallsWriter(OneExecutor)

\* what goes on by itself in the goroutine of an ExecuteHooks call: the loop,
\* the lock a call made by a hook waits for, and the return of a hook that
\* returns
ExecuteHooksProgress(x) ==
    \/ ExecuteHooks_Next(x)
    \/ \E p \in HookPatterns, hooks \in HookArgLists : AddHook(x, p, hooks)
    \/ \E p \in HookPatterns : RemoveHook(x, p)
    \/ Hook_Finishes(x)

OneExecuteHooksFairSpec ==
    HandlerInit /\ [][OneExecuteHooksNext]_vars
        /\ WF_vars(ExecuteHooksProgress(OneExecutor))

\* ---- MatchesPattern ----
\* lines 161-174: one call of the function
MatchesPattern_Call(pattern, toolName) ==
    /\ Len(mp) < MaxMatchCalls
    /\ mp' = Append(mp, MatchCall(pattern, toolName, MatchesPattern(pattern, toolName)))
    /\ UNCHANGED besideMatch

MatchNext ==
    \E pattern \in MatchPatterns, toolName \in MatchToolNames :
        MatchesPattern_Call(pattern, toolName)

MatchSpec == HandlerInit /\ [][MatchNext]_vars

TypeOK ==
    /\ requestID \in 0..NumCallers
    /\ requestIDMu \in Callers \cup {NoProc}
    /\ pendingResponsesMu \in Procs \cup {NoProc}
    /\ \A id \in DOMAIN pendingResponses : pendingResponses[id] \in Callers

\* ==== claims about the control protocol correlator ====
\* the transport accepted the caller's request, so the call went on to wait
Sent(c) == \E i \in 1..Len(sentRequests) : sentRequests[i] = c
Ended(c) == pc[c] \in {"done", "panic"}
\* what SendRequest is to return for a response (lines 162-165)
ExpectedResult(rsp) ==
    IF rsp.Error = NoError THEN Result(rsp, NoError)
    ELSE Result(NilResponse, ErrRequestFailed)
\* the receive loop took a step
ReceiverMoved == <<pc[Receiver], respID, hpending, hresult>>' #
                 <<pc[Receiver], respID, hpending, hresult>>

\* C1: a SendRequest whose response was accepted by HandleControlResponse
\* (and whose context is not done) returns that response, or the error of its
\* error field; it does not end with a timeout, a nil response or a panic.
C1_ResponseReturned ==
    \A c \in Callers :
        (Ended(c) /\ Sent(c) /\ delivered[c] # NilResponse /\ ctxDone[c] = "no")
        => (pc[c] = "done" /\ result[c] = ExpectedResult(delivered[c]))

\* C2: a HandleControlResponse that accepted a response can go on to release
\* the entry and return: it never waits for pendingResponsesMu while holding
\* that lock itself.
C2_HandleTerminates ==
    \A r \in Receivers : pc[r] = "cleanup" => pendingResponsesMu # r

\* C3: the first HandleControlResponse for a pending id succeeds (so that a
\* second one for the same id can be answered with AlreadyHandledError): once
\* a response was accepted for a request, the call that accepted it returns nil.
C3_FirstSucceeds ==
    \A c \in Callers :
        [](delivered[c] # NilResponse
            => <>(/\ pc[Receiver] = "idle"
                  /\ respID[Receiver] = reqID[c]
                  /\ hresult[Receiver] = NoError))

\* C4: when SendRequest has returned from its wait (response, timeout or
\* cancellation), the pending table holds no entry for its id.
C4_EntryRemovedOnReturn ==
    \A c \in Callers :
        (pc[c] = "done" /\ Sent(c)) => ~MapHas(pendingResponses, reqID[c])

\* C5: the ids are issued with strictly increasing numeric suffixes, and no
\* two SendRequest calls hold the same id.
C5_IdsIncrease ==
    /\ \A i, j \in 1..Len(issued) : i < j => Suffix(issued[i]) < Suffix(issued[j])
    /\ \A c, d \in Callers : (c # d /\ reqID[c] # NoID) => reqID[c] # reqID[d]

C5_Witness ==
    /\ Len(issued) >= 2
    /\ \E c \in Callers : pc[c] = "done" /\ result[c].err = ErrSendFailed

\* C6: a SendRequest that found the transport without control support has
\* returned UnsupportedError with no id assigned, no pending entry registered
\* and its request never handed to the transport; and as long as no call found
\* control support the pending table is empty and every HandleControlResponse
\* has returned UnknownRequestError.
C6_Unsupported ==
    /\ \A c \in Callers :
          supportAtCheck[c] = "no"
          => /\ pc[c] = "done"
             /\ result[c] = Result(NilResponse, ErrUnsupported)
             /\ reqID[c] = NoID
             /\ ~Sent(c)
             /\ \A id \in DOMAIN pendingResponses : pendingResponses[id] # c
    /\ (\A c \in Callers : supportAtCheck[c] # "yes")
          => /\ requestID = 0
             /\ DOMAIN pendingResponses = {}
             /\ pc[Receiver] = "idle"
             /\ hresult[Receiver] \in {"pending", ErrUnknownID}

C6_Witness ==
    /\ \A c \in Callers : supportAtCheck[c] = "no"
    /\ hresult[Receiver] = ErrUnknownID

\* C7: a SendRequest whose context was canceled while it waited, and for
\* which no response was accepted, returns the context's error, ctx.Err().
C7_ReturnsCtxErr ==
    \A c \in Callers :
        (pc[c] = "done" /\ ctxDone[c] = "context canceled" /\ delivered[c] = NilResponse)
        => result[c].err = ctxDone[c]

\* C8: when the 30 second bound fires for a request with no response and no
\* cancellation, SendRequest returns the TimeoutError.
C8_TimeoutError ==
    \A c \in Callers :
        (pc[c] = "done" /\ ctxDone[c] = "context deadline exceeded" /\ delivered[c] = NilResponse)
        => result[c].err = ErrTimeout

\* C9: a SendRequest whose control-send failed returns an error with its
\* pending entry removed, and from then on no HandleControlResponse finds an
\* entry for its id.
SendFailed(c) == pc[c] = "done" /\ result[c].err \in {ErrSendFailed, ErrNoCtrlTransport}
NeverRegistered(id) == \A c \in Callers : reqID[c] = id => pc[c] = "register"
C10_UnknownID ==
    [][(pc[Receiver] = "idle" /\ ReceiverMoved /\ NeverRegistered(respID'[Receiver]))
         => /\ pc'[Receiver] = "idle"
            /\ hresult'[Receiver] = ErrUnknownID
            /\ UNCHANGED <<pendingResponses, pendingResponsesMu, heap, delivered,
                           requestID, reqID, result, ctxDone, crashed>>
            /\ \A c \in Callers : pc'[c] = pc[c]]_vars

C10_Witness ==
    /\ pc[Receiver] = "idle"
    /\ hresult[Receiver] = ErrUnknownID
    /\ respID[Receiver] = SprintfID(NumCallers + 1)
    /\ \E c \in Callers : pc[c] = "wait"
\* C11: a response is delivered only to the SendRequest that was assigned its
\* id: a step of HandleControlResponse with id i leaves alone every request
\* whose id differs from i - its pending object and channels (so it is not
\* woken), the response accepted for it, its position and result, and its
\* entry in the pending table.
C11_OnlyOwnRequest ==
    [][\A c \in Callers :
          (ReceiverMoved /\ reqID[c] # respID'[Receiver])
          => /\ heap'[c] = heap[c]
             /\ delivered'[c] = delivered[c]
             /\ pc'[c] = pc[c]
             /\ result'[c] = result[c]
             /\ \A id \in DOMAIN pendingResponses :
                   pendingResponses[id] = c
                   => (MapHas(pendingResponses', id) /\ pendingResponses'[id] = c)]_vars

C11_Witness ==
    \E c, d \in Callers :
        /\ c # d
        /\ pc[c] = "wait" /\ pc[d] = "wait"
        /\ respID[Receiver] = reqID[c]
        /\ delivered[c] # NilResponse /\ heap[c].Done
        /\ delivered[d] = NilResponse /\ ~heap[d].Done
        /\ ~heap[d].ResponseChan.closed /\ ~heap[d].TimeoutChan.closed
        /\ MapHas(pendingResponses, reqID[d])

\* ==== claims about the handler table and the capability queries ====
\* C12: HandleControlRequest for a subtype with no registered handler returns
\* no local error but an Error-subtype response, with the request's id, for
\* the agent.
C12_NoHandlerResponse ==
    (hcrq.pc = "done" /\ hcrq.handler = NoHandler)
    => /\ hcrq.err = NoError
       /\ hcrq.resp.Subtype = "error"
       /\ hcrq.resp.ID = hcrq.req.ID

\* C13: HandleControlRequest for a subtype with a registered handler has, on
\* return, invoked that handler exactly once and returns no local error and a
\* response with the request's id: Error with the handler's error text when
\* the handler failed, Success with the handler's data when it succeeded.
C13_HandlerResponse ==
    (hcrq.pc = "done" /\ hcrq.handler # NoHandler)
    => /\ Len(hcrq.invoked) = 1
       /\ hcrq.invoked[1].handler = hcrq.handler
       /\ hcrq.err = NoError
       /\ hcrq.resp.ID = hcrq.req.ID
       /\ LET out == hcrq.invoked[1].out
          IN IF out.err # NoError
             THEN /\ hcrq.resp.Subtype = "error"
                  /\ hcrq.resp.Error = out.err
             ELSE /\ hcrq.resp.Subtype = "success"
                  /\ hcrq.resp.Data = out.data
                  /\ hcrq.resp.Error = NoError

\* a handler failed, and it had been replaced in the table while it ran
C13_Witness ==
    /\ hcrq.pc = "done" /\ hcrq.handler # NoHandler
    /\ hcrq.resp.Subtype = "error"
    /\ hcrq.req.ID = "agent-2"
    /\ HandlerGet(handlers, hcrq.req.Subtype) # hcrq.handler

\* C14: HasPermissionSupport returns true exactly when RegisterHandler has
\* been called for both the Initialize and the CanUseTool subtype, whatever
\* else was registered.
C14_PermissionSupport == hps.asked => (hps.value = hps.expected)

C14_Witness ==
    /\ hps.asked /\ hps.value
    /\ "initialize" \in registered /\ "can_use_tool" \in registered
    /\ "set_model" \in registered

\* C15: HasControlSupport returns true exactly when the transport implements
\* the control interface and reports the capability at the time of the call,
\* and a SendRequest goes on or fails with UnsupportedError by the capability
\* at the time of its own check, whatever earlier calls observed.
C15_Recomputed ==
    /\ hcs.asked => (hcs.value = hcs.expected)
    /\ \A c \in Callers :
          /\ supportAtCheck[c] = "yes"
                => (pc[c] \in {"genFmt", "register"} /\ result[c] = NoResult)
          /\ supportAtCheck[c] = "no"
                => (pc[c] = "done" /\ result[c] = Result(NilResponse, ErrUnsupported))

\* the capability changed between two SendRequest calls and before the last query
C15_Witness ==
    /\ hcs.asked /\ ~hcs.value /\ transportImplements
    /\ \E c, d \in Callers : supportAtCheck[c] = "yes" /\ supportAtCheck[d] = "no"
\* ==== claims about the permission gate ====
\* the call returned while its sub-context was still live
ReturnedInTime(k) == gpc[k] = "done" /\ gctx[k] = "canceled on return"
\* the callback of call k finished, doing kind
CallbackDid(k, kind) == worker[k].st = "done" /\ worker[k].out.kind = kind

\* C16: a CheckPermission that starts while no callback is installed returns
\* Allow with a nil error in that very step, for every tool name and input:
\* it starts no goroutine and waits on nothing.
C16_AllowByDefault ==
    [][\A k \in Checkers :
          (callback = NoCallback /\ gpc[k] = "idle" /\ gpc'[k] # "idle")
          => /\ gpc'[k] = "done"
             /\ greturn'[k].result.behavior = "allow"
             /\ greturn'[k].err = GateNoError
             /\ worker'[k] = NoWorker]_vars

C16_Witness ==
    \E k, j \in Checkers :
        /\ gpc[k] = "done" /\ worker[k] = NoWorker
        /\ greturn[k] = GateReturn(PermissionResultAllow(NoInput), GateNoError)
        /\ gpc[j] = "select"

\* C17: a CheckPermission whose callback never finishes returns all the same:
\* every call that waits in the select returns, and a call that returned
\* while its callback had not finished returned Deny "Callback timeout" with a
\* nil error, its sub-context having expired or been canceled.
C17_TimeoutDeny ==
    LET k == OneCall IN
        /\ [](gpc[k] = "select" => <>(gpc[k] = "done"))
        /\ []((gpc[k] = "done" /\ worker[k].st \in {"start", "running"})
               => /\ greturn[k] = GateReturn(PermissionResultDeny("Callback timeout", FALSE),
                                             GateNoError)
                  /\ gctx[k] \in {"context deadline exceeded", "context canceled"})

C17_Witness ==
    LET k == OneCall IN
        /\ gpc[k] = "done" /\ worker[k].st = "running"
        /\ gctx[k] = "context deadline exceeded"
        /\ greturn[k].result.message = "Callback timeout"

\* C18: no panic of a callback leaves its goroutine unrecovered, and a
\* CheckPermission that returned, its sub-context still live, after its
\* callback panicked returned Deny with the error made of the recovered value.
C18_PanicContained ==
    /\ ~gateCrashed
    /\ \A k \in Checkers :
          (ReturnedInTime(k) /\ CallbackDid(k, "panic"))
          => /\ greturn[k].result.behavior = "deny"
             /\ greturn[k].err # GateNoError
             /\ greturn[k].err = WrapError(PanicError(worker[k].out.panic))

\* a call returned the panic error, and another call went on to return a result
C18_Witness ==
    \E k, j \in Checkers :
        /\ ReturnedInTime(k) /\ CallbackDid(k, "panic")
        /\ worker[k].out.panic = "test panic"
        /\ ReturnedInTime(j) /\ CallbackDid(j, "result")

\* C19: a CheckPermission that returned, its sub-context still live, after
\* its callback returned an error returned Deny "Callback failed" and a
\* non-nil error that wraps the callback's error.
C19_CallbackFailed ==
    \A k \in Checkers :
        (ReturnedInTime(k) /\ CallbackDid(k, "error"))
        => /\ greturn[k].result = PermissionResultDeny("Callback failed", FALSE)
           /\ greturn[k].err # GateNoError
           /\ greturn[k].err # worker[k].out.err
           /\ Tail(greturn[k].err) = worker[k].out.err

C19_Witness ==
    \E k \in Checkers :
        /\ ReturnedInTime(k) /\ CallbackDid(k, "error")
        /\ greturn[k].err = <<"permission callback failed", "callback error">>

\* C20: a CheckPermission that returned, its sub-context still live, after
\* its callback returned a result returned exactly that result (behaviour,
\* updated input, message and interrupt flag) and a nil error.
C20_ResultVerbatim ==
    \A k \in Checkers :
        (ReturnedInTime(k) /\ CallbackDid(k, "result"))
        => greturn[k] = GateReturn(worker[k].out.result, GateNoError)

C20_Witness ==
    \E k, j \in Checkers :
        /\ ReturnedInTime(k) /\ CallbackDid(k, "result")
        /\ greturn[k].result.behavior = "deny" /\ greturn[k].result.interrupt
        /\ ReturnedInTime(j) /\ CallbackDid(j, "result")
        /\ greturn[j].result.behavior = "allow"
        /\ greturn[j].result.updatedInput = "modified input"
\* the four outcomes of a CheckPermission that started its goroutine
TimeoutDeny == GateReturn(PermissionResultDeny("Callback timeout", FALSE), GateNoError)
ReturnedResult(k) ==
    /\ CallbackDid(k, "result")
    /\ greturn[k] = GateReturn(worker[k].out.result, GateNoError)
ReturnedCallbackError(k) ==
    /\ CallbackDid(k, "error")
    /\ greturn[k] = GateReturn(PermissionResultDeny("Callback failed", FALSE),
                               WrapError(worker[k].out.err))
ReturnedPanicError(k) ==
    /\ CallbackDid(k, "panic")
    /\ greturn[k] = GateReturn(PermissionResultDeny("Callback failed", FALSE),
                               WrapError(PanicError(worker[k].out.panic)))
ReturnedTimeout(k) ==
    /\ greturn[k] = TimeoutDeny
    /\ gctx[k] \in {"context deadline exceeded", "context canceled"}

\* C21: a CheckPermission call that found a callback installed returns once,
\* with exactly one of the four outcomes: what it returned is the callback's
\* result, Deny with the callback's error, Deny with the panic error, or Deny
\* "Callback timeout", the last only when its sub-context had expired or been
\* canceled, also when the callback finished as the sub-context ended; and
\* what it returned never changes afterwards.
C21_ExactlyOneOutcome ==
    /\ [](\A k \in Checkers :
            (gpc[k] = "done" /\ worker[k] # NoWorker)
            => Cardinality({o \in {"result", "error", "panic", "timeout"} :
                    \/ o = "result" /\ ReturnedResult(k)
                    \/ o = "error" /\ ReturnedCallbackError(k)
                    \/ o = "panic" /\ ReturnedPanicError(k)
                    \/ o = "timeout" /\ ReturnedTimeout(k)}) = 1)
    /\ [][\A k \in Checkers :
            gpc[k] = "done" => (gpc'[k] = "done" /\ greturn'[k] = greturn[k])]_vars

\* the callback finished after the sub-context had ended, and the select took
\* the callback's result
C21_Witness ==
    \E k, j \in Checkers :
        /\ gpc[k] = "done" /\ gctx[k] = "context deadline exceeded"
        /\ ReturnedResult(k)
        /\ gpc[j] = "done" /\ ReturnedTimeout(j) /\ CallbackDid(j, "result")

\* C22: the goroutine of a CheckPermission call runs the callback that was
\* installed when the call started, whatever SetPermissionCallback does in
\* between.
C22_RunsCallbackOfStart ==
    [][\A k \in Checkers :
          (worker[k].st = "start" /\ worker'[k].st # "start")
          => (worker'[k].st = "running" /\ worker'[k].cb = worker[k].cb)]_vars
CallState(k) == <<gpc[k], gctx[k], worker[k], resultChan[k], errChan[k], greturn[k]>>

\* C24: concurrent CheckPermission calls against one installed callback that
\* returns Allow are independent: no step touches two calls, each call's
\* goroutine invokes the callback once and never again, every call completes,
\* and every call returns the Allow its own invocation returned, with a nil
\* error, in every interleaving.
C24_ConcurrentCallsIndependent ==
    /\ [](\A k \in Checkers :
            (gpc[k] = "done" /\ worker[k] # NoWorker)
            => /\ worker[k].st = "done"
               /\ worker[k].out.result.behavior = "allow"
               /\ greturn[k] = GateReturn(worker[k].out.result, GateNoError))
    /\ [][\A k \in Checkers :
            /\ worker[k].st \in {"running", "done"} => worker'[k].st \in {"running", "done"}
            /\ worker[k].st = "done" => worker'[k] = worker[k]]_vars
    /\ [][\A k, j \in Checkers :
            (CallState(k)' # CallState(k) /\ CallState(j)' # CallState(j)) => k = j]_vars
    /\ \A k \in Checkers : [](gpc[k] = "select" => <>(gpc[k] = "done"))

\* every call has run the callback once and returned its Allow, and two of the
\* calls returned different Allows
C24_Witness ==
    /\ \A k \in Checkers :
          /\ gpc[k] = "done" /\ worker[k].st = "done"
          /\ greturn[k].result.behavior = "allow"
    /\ \E k, j \in Checkers : greturn[k] # greturn[j]
\* C25: a builder method returns a new result and leaves the one it was
\* called on as it was, so a result handed to another caller never changes.
C25_BuildersLeaveReceiver ==
    /\ builderRet # NoBuilderCall => builderRet.ret # builderRet.recv
    /\ handedOver # NotHandedOver => resultObjs[handedOver.ptr] = handedOver.value
\* C26: RegisterHooks with a matcher of k callbacks stores k new callbacks and
\* returns k ids, pairwise distinct, none issued before, in the callbacks'
\* order, the i-th id retrieving the i-th callback, and leaves the callbacks
\* stored before as they were; with a nil matcher or no callbacks it returns
\* no ids and leaves the storage unchanged.
C26_RegisterHooksIDs ==
    [][\A e \in HookEvents, m \in BashMatchers :
          RegisterHooks(e, m)
          => IF m.nil \/ Len(m.Hooks) = 0
             THEN registerRet' = <<>> /\ callbacks' = callbacks
             ELSE /\ Len(registerRet') = Len(m.Hooks)
                  /\ \A i, j \in 1..Len(m.Hooks) :
                        i # j => registerRet'[i] # registerRet'[j]
                  /\ \A i \in 1..Len(m.Hooks) :
                        /\ registerRet'[i] \notin DOMAIN hookIssued
                        /\ registerRet'[i] \in DOMAIN callbacks'
                        /\ callbacks'[registerRet'[i]] = m.Hooks[i]
                  /\ Cardinality(DOMAIN callbacks')
                        = Cardinality(DOMAIN callbacks) + Len(m.Hooks)
                  /\ \A id \in DOMAIN callbacks :
                        id \in DOMAIN callbacks' /\ callbacks'[id] = callbacks[id]]_vars

\* two callbacks were registered after an earlier id had been issued and
\* removed, and each of the two ids retrieves its callback
C26_Witness ==
    /\ Len(registerRet) = 2 /\ callbackIDSeq = 3
    /\ Cardinality(DOMAIN callbacks) = 2
    /\ registerRet[1] # registerRet[2]
    /\ GetCallback(registerRet[1]) = "hookA"
    /\ GetCallback(registerRet[2]) = "hookB"

\* C27: InvokeCallback with an id that is not in the registry returns the
\* not-found error and calls nothing; with a registered id it calls that
\* callback once and returns what it returned, output and error, unchanged.
C27_InvokeCallback ==
    /\ [](inv.pc = "done"
          => IF inv.cb = NoHook
             THEN /\ inv.calls = <<>>
                  /\ inv.ret = HookReturn(NilMap, ErrHookNotFound(inv.id))
             ELSE /\ inv.calls = <<inv.cb>>
                  /\ inv.ret = inv.cbret)
    /\ [][(inv.pc \in {"idle", "done"} /\ inv' # inv)
          => IF inv'.id \in DOMAIN callbacks
             THEN inv'.pc = "calling" /\ inv'.cb = callbacks[inv'.id]
             ELSE inv'.pc = "done" /\ inv'.cb = NoHook]_vars

\* an id that was issued and then removed is not found, and nothing is called
C27_Witness ==
    /\ inv.pc = "done" /\ inv.cb = NoHook /\ inv.calls = <<>>
    /\ inv.id \in DOMAIN hookIssued /\ inv.id \notin DOMAIN callbacks
    /\ DOMAIN callbacks # {}

\* C28: Execute invokes a callback only if it was registered for the firing
\* event's kind and its pattern matches the event's tool name.
C28_OnlyMatchingInvoked ==
    \A i \in 1..Len(ex.invoked) :
        /\ hookIssued[ex.invoked[i]].event = ex.event
        /\ MatchesPattern(hookIssued[ex.invoked[i]].pattern, ex.tool)

\* each callback is invoked at most once in a dispatch, and a finished
\* dispatch returned the default after the last callback, or what ended it
ExecuteOutcome ==
    /\ \A i, j \in 1..Len(ex.invoked) : i # j => ex.invoked[i] # ex.invoked[j]
    /\ ex.pc = "done"
       => \/ /\ ex.ret = HookReturn(DefaultContinue, NoHookError)
             /\ ex.left = {}
             /\ ex.invoked # <<>> => ex.cbret = HookReturn(NilMap, NoHookError)
          \/ /\ ex.cbret.err = NoHookError /\ ~ex.cbret.out.nil
             /\ ex.ret = HookReturn(ex.cbret.out, NoHookError)
          \/ /\ ex.cbret.err # NoHookError
             /\ ex.ret = HookReturn(NilMap, ErrHookFailed(ex.cur, ex.cbret.err))

C30_HangDoesNotHang ==
    [](ex.ctx = "context deadline exceeded" => <>(ex.pc = "done"))

\* ==== claims about the locks of the correlator ====
\* the locks goroutine p holds: requestIDMu, pendingResponsesMu
HoldsCorrelatorLock(p) == requestIDMu = p \/ pendingResponsesMu = p

\* C36: the correlator holds none of its locks while it calls the transport's
\* control-send or a registered handler: a SendRequest that is in the send
\* holds neither requestIDMu nor pendingResponsesMu, and while a handler runs
\* under HandleControlRequest a call of RegisterHandler can go through.
C36_NoLockAcrossOutcalls ==
    /\ \A c \in Callers : pc[c] = "send" => ~HoldsCorrelatorLock(c)
    /\ hcrq.pc = "invoke"
          => \A h \in Handlers : ENABLED RegisterHandler(hcrq.req.Subtype, h)

\* a response was accepted for a request whose send has not returned, and the
\* handler of the request being dispatched was replaced while it runs
C36_Witness ==
    /\ \E c \in Callers :
          /\ pc[c] = "send"
          /\ delivered[c] # NilResponse
          /\ heap[c].Done
    /\ hcrq.pc = "invoke"
    /\ HandlerGet(handlers, hcrq.req.Subtype) # hcrq.handler

\* C39: SendRequest returns its timeout error only if no response for its id
\* was accepted by HandleControlResponse before it returned: a request whose
\* response has arrived never ends with the timeout error.
C39_TimeoutOnlyWithoutResponse ==
    \A c \in Callers :
        (pc[c] = "done" /\ result[c].err = ErrTimeout) => delivered[c] = NilResponse

\* C40: the two channels of a pending entry are closed at most once, however
\* HandleControlResponse and the cleanupPendingResponse of the send-failure
\* path interleave on one id: no goroutine closes a channel that is closed.
C40_ClosedAtMostOnce ==
    \A p \in Procs : pc[p] = "panic" => crashed # "close of closed channel"

\* ==== claims about the hook system ====
\* the last hook the call invoked ended in a panic
LastHookPanicked(x) ==
    /\ eh[x].outs # <<>>
    /\ eh[x].outs[Len(eh[x].outs)].kind = "panic"

\* C31: a hook that panics while ExecuteHooks runs it is contained:
\* ExecuteHooks returns the default Continue output with a nil error, and the
\* read lock of the hook system is given back.
C31_PanicContained ==
    \A x \in Executors :
        LastHookPanicked(x)
            => /\ eh[x].pc = "done"
               /\ eh[x].ret = ContinueReturn
               /\ x \notin hsMu

\* how often hook h occurs in a list of hooks
Count(hooks, h) == Cardinality({i \in DOMAIN hooks : hooks[i] = h})
\* hook h is in the table once, under pattern p
AddedOnceUnder(h, p) ==
    /\ p \in DOMAIN matchers
    /\ Count(matchers[p], h) = 1
    /\ \A q \in DOMAIN matchers \ {p} : Count(matchers[q], h) = 0

\* C32: when an ExecuteHooks call for a tool-use event returns Continue, a
\* hook added once under pattern P was invoked by the call exactly once if
\* the tool name of the input equals P, and not at all if it differs from P
\* (the table is the one the call saw: the call holds the read lock until it
\* returns).
C32_InvokedOncePerMatchingCall ==
    [][\A x \in Executors :
          (/\ eh'[x] # eh[x]
           /\ eh'[x].pc = "done"
           /\ eh'[x].ret = ContinueReturn
           /\ eh'[x].event = "PreToolUse")
          => \A p \in HookPatterns, h \in HookFuncs :
                AddedOnceUnder(h, p)
                  => Count(eh'[x].invoked, h) = IF eh'[x].tool = p THEN 1 ELSE 0]_vars

\* the hook returned the Stop behaviour, with a nil error
ReturnedStop(r) ==
    r.kind = "return" /\ r.err = NoHookErr /\ r.out.behavior = HookBehaviorStop
\* the hook returned the Continue behaviour, with a nil error
ReturnedContinue(r) ==
    r.kind = "return" /\ r.err = NoHookErr /\ r.out.behavior = HookBehaviorContinue

\* C38: ExecuteHooks runs the matching hooks one after the other, in the order
\* of the list it collected; as soon as a hook returns the Stop behaviour
\* (with a nil error) the call returns that hook's output, behaviour and
\* message unchanged, and invokes no later hook; when every hook it invoked
\* returned Continue, or no hook matched, the call returns Continue.
C38_SequentialUntilStop ==
    /\ [](\A x \in Executors :
            /\ Len(eh[x].invoked) - Len(eh[x].outs)
                  = IF eh[x].pc \in {"calling", "writing"} THEN 1 ELSE 0
            /\ \A i \in DOMAIN eh[x].outs :
                  ReturnedStop(eh[x].outs[i])
                    => /\ i = Len(eh[x].invoked)
                       /\ eh[x].pc = "done"
                       /\ eh[x].ret = ExecuteHooksReturn(eh[x].outs[i].out, NoHookErr)
            /\ (/\ eh[x].pc = "done"
                /\ \A i \in DOMAIN eh[x].outs : ReturnedContinue(eh[x].outs[i]))
                  => eh[x].ret = ContinueReturn)
    /\ [][\A x \in Executors :
            eh[x].pc \in {"loop", "calling", "writing"}
              => eh'[x].invoked \o eh'[x].matching = eh[x].invoked \o eh[x].matching]_vars

\* one call returned the Stop output of the first of its two hooks and left
\* the second one alone, and another call ran two hooks that returned
\* Continue and returned Continue
C38_Witness ==
    \E x, y \in Executors :
        /\ eh[x].pc = "done" /\ Len(eh[x].outs) = 1 /\ eh[x].matching # <<>>
        /\ ReturnedStop(eh[x].outs[1])
        /\ eh[x].ret = ExecuteHooksReturn(HookOutput(HookBehaviorStop, "Stopped by hook"),
                                          NoHookErr)
        /\ eh[y].pc = "done" /\ Len(eh[y].outs) = 2
        /\ \A i \in DOMAIN eh[y].outs : ReturnedContinue(eh[y].outs[i])
        /\ eh[y].ret = ContinueReturn

\* C35: the hook system does not hold its lock while a hook runs: a hook that
\* calls AddHook or RemoveHook of the hook system it runs under gets the lock,
\* and the ExecuteHooks call that runs it comes to its end.
C35_HookMayWriteRegistry ==
    [](eh[OneExecutor].pc = "writing"
         => <>(eh[OneExecutor].pc \in {"done", "panicked"}))

\* ==== claims about the pattern matcher ====
\* C33: MatchesPattern returns true for every name when the pattern is
\* absent; for a pattern that compiles it returns true exactly when the
\* expression matches the name; for a pattern that does not compile it returns
\* true exactly when the text of the pattern equals the name.
C33_MatchesPattern ==
    \A i \in DOMAIN mp :
        LET c == mp[i]
        IN  /\ c.pattern.nil => c.result
            /\ (~c.pattern.nil /\ c.pattern.valid)
                  => (c.result <=> MatchString(c.pattern, c.toolName))
            /\ (~c.pattern.nil /\ ~c.pattern.valid)
                  => (c.result <=> c.pattern.text = c.toolName)

\* a pattern that does not compile was matched by its text, and after it an
\* anchored expression matched one of its names
C33_Witness ==
    /\ Len(mp) = 2
    /\ ~mp[1].pattern.nil /\ ~mp[1].pattern.valid /\ mp[1].result
    /\ mp[1].toolName = mp[1].pattern.text
    /\ mp[2].pattern.valid /\ mp[2].pattern.anchored /\ mp[2].result

\* the pattern is the name of a tool and nothing else
PlainName(pattern) ==
    /\ ~pattern.nil
    /\ \A i \in DOMAIN pattern.text : pattern.text[i] \notin MetaPieces

\* C34: a pattern that is a plain tool name matches the tool of exactly that
\* name, and no tool whose name only contains it.
C34_PlainNameIsExact ==
    \A i \in DOMAIN mp :
        PlainName(mp[i].pattern)
            => (mp[i].result <=> mp[i].toolName = mp[i].pattern.text)

\* ---- claims about the goroutine of a CheckPermission call ----
\* C37: the goroutine that runs the permission callback finishes in the step
\* in which the callback returns or panics, also when CheckPermission has
\* returned already: that step is never held up, it changes nothing of any
\* other call and nothing that a call returned, and a result handed over
\* late stays in the channel of its own call.
C37_LateHandOffNeverBlocks ==
    /\ [](\A k \in Checkers :
            worker[k].st = "running" => ENABLED Callback_Finishes(k))
    /\ [][\A k \in Checkers :
            (worker[k].st = "running" /\ worker'[k].st # "running")
            => /\ worker'[k].st = "done"
               /\ gpc' = gpc /\ greturn' = greturn
               /\ \A j \in Checkers \ {k} : CallState(j)' = CallState(j)]_vars
    /\ [](\A k \in Checkers :
            (gpc[k] = "done" /\ CallbackDid(k, "result") /\ ~ReturnedResult(k))
            => resultChan[k] = <<worker[k].out.result>>)

\* two calls returned the timeout Deny; the callback of one returned a result
\* and the callback of the other panicked, and what they handed over is left
\* in the channels of their own calls
C37_Witness ==
    \E k, j \in Checkers :
        /\ gpc[k] = "done" /\ greturn[k] = TimeoutDeny
        /\ CallbackDid(k, "result") /\ resultChan[k] = <<worker[k].out.result>>
        /\ gpc[j] = "done" /\ greturn[j] = TimeoutDeny
        /\ CallbackDid(j, "panic") /\ Len(errChan[j]) = 1

====
